---- MODULE Spec2Model ----
(***************************************************************************)
(* brlox: a single-pass compiler and stack VM for Lox.                     *)
(*                                                                         *)
(* The model has two halves.  The compiler half keeps the state of         *)
(* compiler/mod.rs (Compiler: env + function) and is driven one source     *)
(* statement at a time, the way Parser::parse loops over declaration().    *)
(* The VM half keeps the state of vm.rs (stack, frames, globals) and is    *)
(* driven one instruction at a time, the way VM::run loops.                *)
(*                                                                         *)
(* Indices (ip, frame_pointer, constant index, local slot) are 0-based as  *)
(* in the Rust source; sequences are 1-based, so an access adds one.       *)
(***************************************************************************)
EXTENDS Integers, Sequences, FiniteSets, TLC

VARIABLES
    history,    \* the sources of the earlier interpret() calls on this VM
    phase,      \* where interpret() is: "compile", "run", or how it ended
    src,        \* the statements of the source the parser has consumed so far
    compiler,   \* compiler/mod.rs Compiler: env and the function being compiled
    enclosing,  \* the compilers of the enclosing functions, innermost last
    stack,      \* VM.stack
    frames,     \* VM.frames
    globals,    \* VM.globals
    output,     \* the lines written to stdout
    err,        \* the message of the error that ended interpret(), or ""
    input,      \* scan.rs Source: the text and where the scanner is in it
    tokens,     \* the tokens scan_token has returned for the source
    parser,     \* compiler/parser.rs Parser, fed by its own Source
    received    \* the arguments the last native function called was given

scanVars == <<input, tokens, parser>>

vars == <<history, phase, src, compiler, enclosing, stack, frames, globals, output, err,
          input, tokens, parser, received>>

----------------------------------------------------------------------------
(* Bounds of the model.                                                    *)

MaxStmts == 5
MaxShadowStmts == 6
MaxGlobalStmts == 3
MaxLogicStmts == 2
MaxCallStmts == 4
MaxDepth == 2
MaxLines == 2
MaxReplStmts == 4
MaxDeepStmts == 2
BurstLen == 230
MaxTypeStmts == 2
MaxDisciplineStmts == 5
MaxAssignStmts == 5
MaxPrecStmts == 1
MaxAnchorStmts == 4
MaxParseStmts == 2
MaxScans == 5
MaxTextLen == 3
MaxBinaryStmts == 2
MaxJumpStmts == 2
MaxIfStmts == 2
MaxWhileStmts == 2
Limit == 3
MaxPrints == 4
MaxForStmts == 2
MaxFalseyStmts == 2
MaxEqualStmts == 2

(* Program constants.                                                      *)

STACK_MAX == 256
FRAMES_MAX == 64

Names == {"a", "b"}

----------------------------------------------------------------------------
(* value/mod.rs, value/object.rs                                           *)

Nil == [t |-> "nil"]
Bool(b) == [t |-> "bool", b |-> b]
Number(n) == [t |-> "num", n |-> n]
LString(s) == [t |-> "str", s |-> s]
NewChunk == [code |-> <<>>, constants |-> <<>>, lines |-> <<>>]
NewObjFunction == [t |-> "fn", name |-> "", arity |-> 0, chunk |-> NewChunk]
ObjNative(f) == [t |-> "native", native_function |-> f]

values_equal(a, b) ==
    CASE a.t = "bool" /\ b.t = "bool" -> a.b = b.b
      [] a.t = "nil" /\ b.t = "nil" -> TRUE
      [] a.t = "num" /\ b.t = "num" -> a.n = b.n
      [] a.t = "str" /\ b.t = "str" -> a.s = b.s
      [] OTHER -> FALSE

(* is_falsey, had it taken the number 0 for false as well.                 *)
is_falsey_or_zero(value) ==
    CASE value.t = "nil" -> TRUE
      [] value.t = "bool" -> ~value.b
      [] value.t = "num" -> value.n = 0
      [] OTHER -> FALSE

is_falsey(value) ==
    CASE value.t = "nil" -> TRUE
      [] value.t = "bool" -> ~value.b
      [] OTHER -> FALSE

NumToString(n) == IF n < 0 THEN "-" \o ToString(-n) ELSE ToString(n)

ValueToString(value) ==
    CASE value.t = "bool" -> (IF value.b THEN "true" ELSE "false")
      [] value.t = "nil" -> "nil"
      [] value.t = "num" -> NumToString(value.n)
      [] value.t = "str" -> value.s
      [] value.t = "fn" -> "<fn " \o value.name \o ">"
      [] value.t = "native" -> "<native fn>"

----------------------------------------------------------------------------
(* chunk.rs                                                                *)

Op(op, arg) == [op |-> op, arg |-> arg]

(* add_code, had it kept no line for the instruction.                      *)
add_code_without_line(chunk, op_code, line) ==
    [chunk EXCEPT !.code = Append(@, op_code)]

add_code(chunk, op_code, line) ==
    [chunk EXCEPT !.code = Append(@, op_code), !.lines = Append(@, line)]

(* add_constant, had it put the value in front of the others.               *)
add_constant_in_front(chunk, value) == [chunk EXCEPT !.constants = <<value>> \o @]

add_constant(chunk, value) == [chunk EXCEPT !.constants = Append(@, value)]

----------------------------------------------------------------------------
(* vm.rs                                                                   *)

CallFrame(function, frame_pointer) ==
    [function |-> function, ip |-> 0, frame_pointer |-> frame_pointer]

NativeNames == {"clock"}

define_native(f) == ObjNative(f)

NewGlobals == [n \in NativeNames |-> define_native(n)]

(* HashMap::insert and HashMap::remove on globals.                         *)
MapInsert(map, key, value) ==
    [k \in (DOMAIN map) \cup {key} |-> IF k = key THEN value ELSE map[k]]

MapRemove(map, key) == [k \in (DOMAIN map) \ {key} |-> map[k]]

Last(s) == s[Len(s)]
Front(s) == SubSeq(s, 1, Len(s) - 1)

(* How one instruction can end when it does not simply continue.           *)
Panic(vm) == [vm EXCEPT !.phase = "panic"]
RuntimeError(vm, message) ==
    [vm EXCEPT !.phase = "runtime_error", !.err = message,
               !.output = Append(@, message)]

UndefinedVariable(name) == "Undefined variable '" \o name \o "'"

(* The constant a *Global instruction names, as_string() applied.          *)
ConstantAt(frame, index) == frame.function.chunk.constants[index + 1]
HasConstant(frame, index) == index + 1 <= Len(frame.function.chunk.constants)

(* stack.drain(previous_frame_pointer..): what stays on the stack.         *)
DrainKeepsAll(values, previous_frame_pointer) == values

Drain(values, previous_frame_pointer) == SubSeq(values, 1, previous_frame_pointer)

(* OpReturn, had it pushed the result before looking whether a frame is    *)
(* left.                                                                   *)
ExecReturnPushesFirst(vm) ==
    IF vm.stack = <<>> THEN Panic(vm)
    ELSE LET result == Last(vm.stack)
             previous_frame_pointer == Last(vm.frames).frame_pointer
             popped == Front(vm.stack)
             rest == Front(vm.frames)
         IN IF previous_frame_pointer > Len(popped) THEN Panic(vm)
            ELSE LET drained == Append(Drain(popped, previous_frame_pointer), result)
                 IN IF Len(rest) = 0
                    THEN [vm EXCEPT !.frames = rest, !.stack = drained,
                                    !.phase = "done"]
                    ELSE [vm EXCEPT !.frames = rest, !.stack = drained]

ExecReturn(vm) ==
    IF vm.stack = <<>> THEN Panic(vm)
    ELSE LET result == Last(vm.stack)
             previous_frame_pointer == Last(vm.frames).frame_pointer
             popped == Front(vm.stack)
             rest == Front(vm.frames)
         IN IF previous_frame_pointer > Len(popped) THEN Panic(vm)
            ELSE LET drained == Drain(popped, previous_frame_pointer)
                 IN IF Len(rest) = 0
                    THEN [vm EXCEPT !.frames = rest, !.stack = drained,
                                    !.phase = "done"]
                    ELSE [vm EXCEPT !.frames = rest,
                                    !.stack = Append(drained, result)]

(* OpNegate, had it popped its operand before looking at it.               *)
ExecNegatePopsFirst(vm) ==
    IF vm.stack = <<>> THEN Panic(vm)
    ELSE IF Last(vm.stack).t = "num"
         THEN [vm EXCEPT !.stack = Append(Front(@), Number(-Last(@).n))]
         ELSE RuntimeError([vm EXCEPT !.stack = Front(@)], "Operand must be a number.")

ExecNegate(vm) ==
    IF vm.stack = <<>> THEN Panic(vm)
    ELSE IF Last(vm.stack).t = "num"
         THEN [vm EXCEPT !.stack = Append(Front(@), Number(-Last(@).n))]
         ELSE RuntimeError(vm, "Operand must be a number.")

(* The arithmetic of binary_operation, had it taken the top of the stack   *)
(* for the left operand.                                                   *)
NumberResultSwapped(op, left, right) ==
    CASE op = "OpAdd" -> Number(right + left)
      [] op = "OpSubtract" -> Number(right - left)
      [] op = "OpMultiply" -> Number(right * left)
      [] op = "OpDivide" /\ left # 0 -> Number(right \div left)
      [] op = "OpGreater" -> Bool(right > left)
      [] op = "OpLess" -> Bool(right < left)

NumberResult(op, left, right) ==
    CASE op = "OpAdd" -> Number(left + right)
      [] op = "OpSubtract" -> Number(left - right)
      [] op = "OpMultiply" -> Number(left * right)
      [] op = "OpDivide" /\ right # 0 /\ left % right = 0 -> Number(left \div right)
      [] op = "OpGreater" -> Bool(left > right)
      [] op = "OpLess" -> Bool(left < right)

binary_operation(vm, op) ==
    LET stack_len == Len(vm.stack) IN
    IF stack_len < 2 THEN Panic(vm)
    ELSE LET right == vm.stack[stack_len]
             left == vm.stack[stack_len - 1]
             below == SubSeq(vm.stack, 1, stack_len - 2)
         IN CASE right.t = "num" /\ left.t = "num" ->
                    [vm EXCEPT !.stack = Append(below, NumberResult(op, left.n, right.n))]
              [] right.t = "str" /\ left.t = "str" ->
                    IF op = "OpAdd"
                    THEN [vm EXCEPT !.stack = Append(below, LString(left.s \o right.s))]
                    ELSE RuntimeError(vm, "You cannot use that operator for strings.")
              [] OTHER ->
                    RuntimeError(vm, "Operands must be two numbers or two strings.")

ExecDefineGlobal(vm, frame, index) ==
    IF ~HasConstant(frame, index) \/ vm.stack = <<>> THEN Panic(vm)
    ELSE IF ConstantAt(frame, index).t # "str" THEN Panic(vm)
    ELSE [vm EXCEPT !.globals = MapInsert(@, ConstantAt(frame, index).s, Last(vm.stack)),
                    !.stack = Front(@)]

ExecGetGlobal(vm, frame, index) ==
    IF ~HasConstant(frame, index) THEN Panic(vm)
    ELSE IF ConstantAt(frame, index).t # "str" THEN Panic(vm)
    ELSE LET name == ConstantAt(frame, index).s IN
         IF name \in DOMAIN vm.globals
         THEN [vm EXCEPT !.stack = Append(@, vm.globals[name])]
         ELSE RuntimeError(vm, UndefinedVariable(name))

(* insert first, and take the binding out again when there was none.       *)
SetGlobalKeepsInsert(map, name) == map

SetGlobalUndo(map, name) == MapRemove(map, name)

ExecSetGlobal(vm, frame, index) ==
    IF ~HasConstant(frame, index) THEN Panic(vm)
    ELSE IF ConstantAt(frame, index).t # "str" \/ vm.stack = <<>> THEN Panic(vm)
    ELSE LET name == ConstantAt(frame, index).s
             inserted == MapInsert(vm.globals, name, Last(vm.stack))
         IN IF name \notin DOMAIN vm.globals
            THEN RuntimeError([vm EXCEPT !.globals = SetGlobalUndo(inserted, name)],
                              UndefinedVariable(name))
            ELSE [vm EXCEPT !.globals = inserted]

ExecGetLocal(vm, frame, index) ==
    IF frame.frame_pointer + index + 1 > Len(vm.stack) THEN Panic(vm)
    ELSE [vm EXCEPT !.stack = Append(@, vm.stack[frame.frame_pointer + index + 1])]

(* OpSetLocal, had it popped the value it stored.                          *)
ExecSetLocalAndPop(vm, frame, index) ==
    IF frame.frame_pointer + index + 1 > Len(vm.stack) THEN Panic(vm)
    ELSE [vm EXCEPT !.stack = Front([@ EXCEPT ![frame.frame_pointer + index + 1] =
                                                  Last(vm.stack)])]

ExecSetLocal(vm, frame, index) ==
    IF frame.frame_pointer + index + 1 > Len(vm.stack) THEN Panic(vm)
    ELSE [vm EXCEPT !.stack[frame.frame_pointer + index + 1] = Last(vm.stack)]

(* The frame_pointer of a called function: the callee's own stack slot.    *)
CalleeSlotAboveCallee(stack_len, arg_count) == stack_len - arg_count

CalleeSlot(stack_len, arg_count) == (stack_len - 1) - arg_count

call_any_arity(vm, function, arg_count) ==
    IF Len(vm.frames) = FRAMES_MAX
    THEN RuntimeError(vm, "Stack overflow.")
    ELSE [vm EXCEPT !.frames =
              Append(@, CallFrame(function, CalleeSlot(Len(vm.stack), arg_count)))]

call(vm, function, arg_count) ==
    LET arity == function.arity IN
    IF arg_count # arity
    THEN RuntimeError(vm, "Expected " \o NumToString(arity) \o " arguments but got "
                          \o NumToString(arg_count) \o ".")
    ELSE IF Len(vm.frames) = FRAMES_MAX
    THEN RuntimeError(vm, "Stack overflow.")
    ELSE [vm EXCEPT !.frames =
              Append(@, CallFrame(function, CalleeSlot(Len(vm.stack), arg_count)))]

(* clock ignores its arguments and answers the time, `now`.                *)
clock(arg_count, ip, now) == Number(now)

(* The NativeFunction arm of call_value: the native is given arg_count and *)
(* the ip that run() passed on.                                            *)
call_native(vm, arg_count, ip, now) ==
    LET result == clock(arg_count, ip, now)
        stack_tail == Len(vm.stack) - 1
    IN [vm EXCEPT !.received = <<arg_count, ip>>,
                  !.stack = Append(SubSeq(@, 1, stack_tail - arg_count), result)]

call_value(vm, callee, arg_count, ip, now) ==
    CASE callee.t = "fn" -> call(vm, callee, arg_count)
      [] callee.t = "native" -> call_native(vm, arg_count, ip, now)
      [] OTHER -> RuntimeError(vm, "Can only call functions and classes.")

(* The OpCall arm of run(): the callee is read from under the arguments,   *)
(* and the ip handed on is the frame's, already advanced.                  *)
ExecCall(vm, arg_count, now) ==
    IF Len(vm.stack) < 1 + arg_count THEN Panic(vm)
    ELSE call_value(vm, vm.stack[Len(vm.stack) - arg_count], arg_count,
                    Last(vm.frames).ip, now)

(* One turn of the loop of VM::run: fetch, advance ip, dispatch.           *)
Exec(vm, now) ==
    LET top == Len(vm.frames)
        frame == vm.frames[top]
        code == frame.function.chunk.code
    IN IF top = 0 \/ frame.ip + 1 > Len(code) THEN Panic(vm)
       ELSE LET instruction == code[frame.ip + 1]
                op == instruction.op
                arg == instruction.arg
                vm1 == [vm EXCEPT !.frames[top].ip = @ + 1]
            IN CASE op = "OpReturn" -> ExecReturn(vm1)
                 [] op = "OpNegate" -> ExecNegate(vm1)
                 [] op = "OpConstant" ->
                        IF ~HasConstant(frame, arg) THEN Panic(vm1)
                        ELSE [vm1 EXCEPT !.stack = Append(@, ConstantAt(frame, arg))]
                 [] op = "OpNil" -> [vm1 EXCEPT !.stack = Append(@, Nil)]
                 [] op = "OpTrue" -> [vm1 EXCEPT !.stack = Append(@, Bool(TRUE))]
                 [] op = "OpFalse" -> [vm1 EXCEPT !.stack = Append(@, Bool(FALSE))]
                 [] op = "OpNot" ->
                        IF vm1.stack = <<>> THEN Panic(vm1)
                        ELSE [vm1 EXCEPT !.stack =
                                  Append(Front(@), Bool(is_falsey(Last(@))))]
                 [] op = "OpEqual" ->
                        IF Len(vm1.stack) < 2 THEN Panic(vm1)
                        ELSE LET right == Last(vm1.stack)
                                 left == Last(Front(vm1.stack))
                             IN [vm1 EXCEPT !.stack =
                                     Append(Front(Front(@)), Bool(values_equal(left, right)))]
                 [] op = "OpPrint" ->
                        IF vm1.stack = <<>> THEN Panic(vm1)
                        ELSE [vm1 EXCEPT !.output = Append(@, ValueToString(Last(vm1.stack))),
                                         !.stack = Front(@)]
                 [] op = "OpPop" ->
                        IF vm1.stack = <<>> THEN vm1
                        ELSE [vm1 EXCEPT !.stack = Front(@)]
                 [] op = "OpDefineGlobal" -> ExecDefineGlobal(vm1, frame, arg)
                 [] op = "OpGetGlobal" -> ExecGetGlobal(vm1, frame, arg)
                 [] op = "OpGetLocal" -> ExecGetLocal(vm1, frame, arg)
                 [] op = "OpSetGlobal" -> ExecSetGlobal(vm1, frame, arg)
                 [] op = "OpSetLocal" -> ExecSetLocal(vm1, frame, arg)
                 [] op = "OpJumpIfFalse" ->
                        IF vm1.stack = <<>> THEN Panic(vm1)
                        ELSE IF is_falsey(Last(vm1.stack))
                             THEN [vm1 EXCEPT !.frames[top].ip = @ + arg]
                             ELSE vm1
                 [] op = "OpJump" -> [vm1 EXCEPT !.frames[top].ip = @ + arg]
                 [] op = "OpJumpBack" ->
                        IF arg > vm1.frames[top].ip THEN Panic(vm1)
                        ELSE [vm1 EXCEPT !.frames[top].ip = @ - arg]
                 [] op \in {"OpAdd", "OpSubtract", "OpMultiply", "OpDivide",
                            "OpGreater", "OpLess"} -> binary_operation(vm1, op)
                 [] op = "OpCall" -> ExecCall(vm1, arg, now)

----------------------------------------------------------------------------
(* compiler/mod.rs: Compiler                                               *)

NewEnv == [locals |-> <<>>, scope_depth |-> 0, local_count |-> 0]

Local(name, depth) == [name |-> name, depth |-> depth, initialized |-> FALSE]

(* `line` is the line of the token the parser consumed last            *)
(* (parser.previous.line), which every emit takes for the instruction.     *)
(* The statements of a source given as parse trees are all on line 1.      *)
NewCompiler(function_type) ==
    [env |-> NewEnv, function |-> NewObjFunction, function_type |-> function_type,
     line |-> 1, underflow |-> FALSE]

(* code.len() - 1 is a subtraction of usize: on an empty chunk it goes      *)
(* below 0, where a debug build panics and a release build wraps.  The      *)
(* model keeps the anchor modulo 2^64, -1 standing for usize::MAX, and the  *)
(* compiler remembers in `underflow` that the subtraction went below 0.     *)
Anchored(c) ==
    IF Len(c.function.chunk.code) = 0 THEN [c EXCEPT !.underflow = TRUE] ELSE c

emit_byte(c, byte) == [c EXCEPT !.function.chunk = add_code(@, byte, c.line)]

(* add_constant answers the index of the value it appended.                *)
LastConstant(c) == Len(c.function.chunk.constants) - 1

emit_constant(c, value) ==
    LET c1 == [c EXCEPT !.function.chunk = add_constant(@, value)]
    IN emit_byte(c1, Op("OpConstant", LastConstant(c1)))

identifier_constant(c, name) ==
    [c EXCEPT !.function.chunk = add_constant(@, LString(name))]

add_local(c, name) ==
    [c EXCEPT !.env.locals = Append(@, Local(name, c.env.scope_depth)),
              !.env.local_count = @ + 1]

(* The index, in env.locals, of the local that a finished declaration      *)
(* marks initialized.                                                      *)
InitializedIndex(env) == env.local_count - 1

mark_initialized(c) ==
    IF c.env.scope_depth = 0 THEN c
    ELSE [c EXCEPT !.env.locals[InitializedIndex(c.env) + 1].initialized = TRUE]

begin_scope(c) == [c EXCEPT !.env.scope_depth = @ + 1]

(* The locals end_scope pops: those counted by local_count whose depth is  *)
(* above the scope just left.  locals itself keeps every entry.            *)
RECURSIVE PopLocals(_)
PopLocals(c) ==
    IF c.env.local_count > 0
       /\ c.env.locals[c.env.local_count].depth > c.env.scope_depth
    THEN PopLocals([emit_byte(c, Op("OpPop", 0)) EXCEPT !.env.local_count = @ - 1])
    ELSE c

end_scope(c) == PopLocals([c EXCEPT !.env.scope_depth = @ - 1])

(* The locals check_variable_already_exists looks at: from the last one    *)
(* down to, but not including, the first whose depth is below scope_depth. *)
RECURSIVE SameScopeFrom(_, _)
SameScopeFrom(env, i) ==
    IF i = 0 \/ env.locals[i].depth < env.scope_depth THEN {}
    ELSE {i} \cup SameScopeFrom(env, i - 1)

check_variable_already_exists(c, variable_name) ==
    \E i \in SameScopeFrom(c.env, Len(c.env.locals)) :
        c.env.locals[i].name = variable_name

is_local(c) == c.env.scope_depth > 0

(* The entries of env.locals that resolve_local searches.                  *)
Resolvable(env) == 1 .. Len(env.locals)

(* resolve_local: the first match walking env.locals backwards.  `i` is    *)
(* the position counted from the end, as enumerate() over rev() counts it. *)
resolve_local(c, name) ==
    LET locals_len == Len(c.env.locals)
        matches == {k \in Resolvable(c.env) : c.env.locals[k].name = name}
    IN IF matches = {} THEN [err |-> FALSE, found |-> FALSE, index |-> 0]
       ELSE LET k == CHOOSE m \in matches : \A n \in matches : n <= m
                i == locals_len - k
            IN IF ~c.env.locals[k].initialized
               THEN [err |-> TRUE, found |-> FALSE, index |-> 0]
               ELSE [err |-> FALSE, found |-> TRUE, index |-> locals_len - i]

OwnInitializer == "Can't read local variable in own initializer"
AlreadyDeclared == "Already a variable with this name in this scope."

patch_jump_past(c, jump_start) ==
    LET code == c.function.chunk.code
        offset == Len(code) - jump_start
    IN [c EXCEPT !.function.chunk.code[jump_start + 1].arg = offset]

patch_jump(c, jump_start) ==
    LET code == c.function.chunk.code
        offset == (Len(code) - 1) - jump_start
    IN [c EXCEPT !.function.chunk.code[jump_start + 1].arg = offset]

(* emit_jump answers the address of the jump it emitted.                   *)
LastAddress(c) == Len(c.function.chunk.code) - 1

emit_jump(c, op) == emit_byte(c, Op(op, 0))

(* emit_jump_back, had it counted the JumpBack itself into the offset.     *)
emit_jump_back_long(c, jump_back_address) ==
    emit_byte(c, Op("OpJumpBack",
                    (Len(c.function.chunk.code) + 1) - jump_back_address))

emit_jump_back(c, jump_back_address) ==
    LET code_size == Len(c.function.chunk.code)
        offset == code_size - jump_back_address
    IN emit_byte(c, Op("OpJumpBack", offset))

emit_pop(c) == emit_byte(c, Op("OpPop", 0))

(* end_compiler, had it left the chunk without its closing return.         *)
end_compiler_without_return(c) == c

end_compiler(c) == emit_byte(emit_byte(c, Op("OpNil", 0)), Op("OpReturn", 0))

(* compile(): a Script compiler whose chunk starts by pushing the script   *)
(* function itself, which becomes slot 0 of the script's frame.            *)
RootCompiler ==
    LET root_compiler == [NewCompiler("Script") EXCEPT !.line = 0]
    IN [emit_constant(root_compiler, root_compiler.function) EXCEPT !.line = 1]

----------------------------------------------------------------------------
(* compiler/parser.rs: expressions.  An expression of the source is given  *)
(* as its parse tree; each node is compiled by the parse function of its   *)
(* kind, the operands by the recursive call parse_precedence makes.        *)

Ok(c) == [ok |-> TRUE, c |-> c, msg |-> ""]
Fail(c, msg) == [ok |-> FALSE, c |-> c, msg |-> msg]

ENum(n) == [kind |-> "num", n |-> n]
ELit(v) == [kind |-> "lit", v |-> v]
EStr(s) == [kind |-> "str", s |-> s]
EVar(name) == [kind |-> "var", name |-> name]
EAssign(name, e) == [kind |-> "assign", name |-> name, e |-> e]
EAnd(l, r) == [kind |-> "and", l |-> l, r |-> r]
EOr(l, r) == [kind |-> "or", l |-> l, r |-> r]
EBinary(op, l, r) == [kind |-> "binary", op |-> op, l |-> l, r |-> r]
EUnary(op, e) == [kind |-> "unary", op |-> op, e |-> e]
ECall(callee, args) == [kind |-> "call", callee |-> callee, args |-> args]
NoExpr == [kind |-> "none"]

literal(c, v) ==
    CASE v = "false" -> emit_byte(c, Op("OpFalse", 0))
      [] v = "nil" -> emit_byte(c, Op("OpNil", 0))
      [] v = "true" -> emit_byte(c, Op("OpTrue", 0))

(* The instructions binary() emits for an operator token.                  *)
BinaryOps(operator_type) ==
    CASE operator_type = "+" -> <<Op("OpAdd", 0)>>
      [] operator_type = "-" -> <<Op("OpSubtract", 0)>>
      [] operator_type = "*" -> <<Op("OpMultiply", 0)>>
      [] operator_type = "/" -> <<Op("OpDivide", 0)>>
      [] operator_type = "!=" -> <<Op("OpEqual", 0), Op("OpNot", 0)>>
      [] operator_type = "==" -> <<Op("OpEqual", 0)>>
      [] operator_type = ">" -> <<Op("OpGreater", 0)>>
      [] operator_type = ">=" -> <<Op("OpLess", 0), Op("OpNot", 0)>>
      [] operator_type = "<" -> <<Op("OpLess", 0)>>
      [] operator_type = "<=" -> <<Op("OpGreater", 0), Op("OpNot", 0)>>

UnaryOp(operator_type) ==
    CASE operator_type = "-" -> Op("OpNegate", 0)
      [] operator_type = "!" -> Op("OpNot", 0)

RECURSIVE EmitAll(_, _)
EmitAll(c, ops) ==
    IF ops = <<>> THEN c ELSE EmitAll(emit_byte(c, ops[1]), Tail(ops))

(* The first half of named_variable: how the name resolves, and the get    *)
(* and set instructions for it.  A name that is no local costs a constant. *)
named_variable(c, name) ==
    LET arg == resolve_local(c, name) IN
    IF arg.err THEN [ok |-> FALSE, c |-> c, get_op |-> Op("", 0), set_op |-> Op("", 0)]
    ELSE IF arg.found
    THEN [ok |-> TRUE, c |-> c, get_op |-> Op("OpGetLocal", arg.index),
          set_op |-> Op("OpSetLocal", arg.index)]
    ELSE LET c1 == identifier_constant(c, name)
             index == LastConstant(c1)
         IN [ok |-> TRUE, c |-> c1, get_op |-> Op("OpGetGlobal", index),
             set_op |-> Op("OpSetGlobal", index)]

RECURSIVE expression(_, _)

(* callee ( args ): the callee, each argument left to right, Call(argc).   *)
RECURSIVE argument_list(_, _)
argument_list(c, args) ==
    IF args = <<>> THEN Ok(c)
    ELSE LET first == expression(c, args[1]) IN
         IF ~first.ok THEN first ELSE argument_list(first.c, Tail(args))

call_expression(c, e) ==
    LET callee == expression(c, e.callee) IN
    IF ~callee.ok THEN callee
    ELSE LET arguments == argument_list(callee.c, e.args) IN
         IF ~arguments.ok THEN arguments
         ELSE Ok(emit_byte(arguments.c, Op("OpCall", Len(e.args))))

expression(c, e) ==
    CASE e.kind = "num" -> Ok(emit_constant(c, Number(e.n)))
      [] e.kind = "lit" -> Ok(literal(c, e.v))
      [] e.kind = "str" -> Ok(emit_constant(c, LString(e.s)))
      [] e.kind = "var" ->
            LET nv == named_variable(c, e.name) IN
            IF ~nv.ok THEN Fail(c, OwnInitializer)
            ELSE Ok(emit_byte(nv.c, nv.get_op))
      [] e.kind = "assign" ->
            LET nv == named_variable(c, e.name) IN
            IF ~nv.ok THEN Fail(c, OwnInitializer)
            ELSE LET value == expression(nv.c, e.e) IN
                 IF ~value.ok THEN value
                 ELSE Ok(emit_byte(value.c, nv.set_op))
      [] e.kind = "and" ->
            LET left == expression(c, e.l) IN
            IF ~left.ok THEN left
            ELSE LET c1 == emit_jump(left.c, "OpJumpIfFalse")
                     end_jump == LastAddress(c1)
                     right == expression(emit_pop(c1), e.r)
                 IN IF ~right.ok THEN right
                    ELSE Ok(patch_jump(right.c, end_jump))
      [] e.kind = "or" ->
            LET left == expression(c, e.l) IN
            IF ~left.ok THEN left
            ELSE LET c1 == emit_jump(left.c, "OpJumpIfFalse")
                     else_jump == LastAddress(c1)
                     c2 == emit_jump(c1, "OpJump")
                     end_jump == LastAddress(c2)
                     c3 == emit_pop(patch_jump(c2, else_jump))
                     right == expression(c3, e.r)
                 IN IF ~right.ok THEN right
                    ELSE Ok(patch_jump(right.c, end_jump))
      [] e.kind = "binary" ->
            LET left == expression(c, e.l) IN
            IF ~left.ok THEN left
            ELSE LET right == expression(left.c, e.r) IN
                 IF ~right.ok THEN right
                 ELSE Ok(EmitAll(right.c, BinaryOps(e.op)))
      [] e.kind = "unary" ->
            LET operand == expression(c, e.e) IN
            IF ~operand.ok THEN operand
            ELSE Ok(emit_byte(operand.c, UnaryOp(e.op)))
      [] e.kind = "call" -> call_expression(c, e)

----------------------------------------------------------------------------
(* compiler/parser.rs: statements                                          *)

declare_variable(c, name) ==
    IF ~is_local(c) THEN Ok(c)
    ELSE IF check_variable_already_exists(c, name) THEN Fail(c, AlreadyDeclared)
    ELSE Ok(add_local(c, name))

(* parse_variable: the declared compiler, and the constant of a global's   *)
(* name (0 for a local).                                                   *)
parse_variable(c, name) ==
    LET declared == declare_variable(c, name) IN
    IF ~declared.ok THEN [ok |-> FALSE, c |-> c, msg |-> declared.msg, global |-> 0]
    ELSE IF is_local(declared.c)
    THEN [ok |-> TRUE, c |-> declared.c, msg |-> "", global |-> 0]
    ELSE LET c1 == identifier_constant(declared.c, name)
         IN [ok |-> TRUE, c |-> c1, msg |-> "", global |-> LastConstant(c1)]

define_local_variable(c) == mark_initialized(c)

define_global_variable(c, global) == emit_byte(c, Op("OpDefineGlobal", global))

var_declaration(c, name, init) ==
    LET variable == parse_variable(c, name) IN
    IF ~variable.ok THEN Fail(variable.c, variable.msg)
    ELSE LET value == IF init.kind = "none"
                      THEN Ok(emit_byte(variable.c, Op("OpNil", 0)))
                      ELSE expression(variable.c, init)
         IN IF ~value.ok THEN value
            ELSE IF is_local(value.c) THEN Ok(define_local_variable(value.c))
            ELSE Ok(define_global_variable(value.c, variable.global))

print_statement(c, e) ==
    LET value == expression(c, e) IN
    IF ~value.ok THEN value ELSE Ok(emit_byte(value.c, Op("OpPrint", 0)))

expression_statement(c, e) ==
    LET value == expression(c, e) IN
    IF ~value.ok THEN value ELSE Ok(emit_pop(value.c))

(* condition(): ( expression )                                             *)
condition(c, e) == expression(c, e)

RECURSIVE statement(_, _)
RECURSIVE declaration(_, _)

(* A Rust `let`: the value is computed once, then the rest goes on with it. *)
With(value, rest(_)) == CHOOSE r \in {rest(v) : v \in {value}} : TRUE

(* block(): declarations up to the '}'.                                    *)
RECURSIVE block(_, _)
block(c, decls) ==
    IF decls = <<>> THEN Ok(c)
    ELSE With(declaration(c, decls[1]), LAMBDA first :
         IF ~first.ok THEN first ELSE block(first.c, Tail(decls)))

while_statement(c, s) ==
    LET code_size == Len(c.function.chunk.code)
        loop_start == code_size - 1
    IN With(condition(Anchored(c), s.cond), LAMBDA cond :
       IF ~cond.ok THEN cond
       ELSE With(emit_jump(cond.c, "OpJumpIfFalse"), LAMBDA c1 :
            LET exit_jump == LastAddress(c1) IN
            With(statement(emit_pop(c1), s.body), LAMBDA body :
            IF ~body.ok THEN body
            ELSE Ok(emit_pop(patch_jump(emit_jump_back(body.c, loop_start),
                                        exit_jump))))))

(* if_statement, had it emitted no jump over the else branch.             *)
if_statement_falling_through(c, s) ==
    With(condition(c, s.cond), LAMBDA cond :
    IF ~cond.ok THEN cond
    ELSE With(emit_jump(cond.c, "OpJumpIfFalse"), LAMBDA c1 :
         LET then_jump == LastAddress(c1) IN
         With(statement(emit_pop(c1), s.then_branch), LAMBDA then_branch :
         IF ~then_branch.ok THEN then_branch
         ELSE With(emit_pop(patch_jump(then_branch.c, then_jump)), LAMBDA c3 :
              IF s.else_branch.kind = "none" THEN Ok(c3)
              ELSE statement(c3, s.else_branch)))))

if_statement(c, s) ==
    With(condition(c, s.cond), LAMBDA cond :
    IF ~cond.ok THEN cond
    ELSE With(emit_jump(cond.c, "OpJumpIfFalse"), LAMBDA c1 :
         LET then_jump == LastAddress(c1) IN
         With(statement(emit_pop(c1), s.then_branch), LAMBDA then_branch :
         IF ~then_branch.ok THEN then_branch
         ELSE With(emit_jump(then_branch.c, "OpJump"), LAMBDA c2 :
              LET else_jump == LastAddress(c2) IN
              With(emit_pop(patch_jump(c2, then_jump)), LAMBDA c3 :
              With(IF s.else_branch.kind = "none" THEN Ok(c3)
                   ELSE statement(c3, s.else_branch), LAMBDA else_branch :
              IF ~else_branch.ok THEN else_branch
              ELSE Ok(patch_jump(else_branch.c, else_jump))))))))

(* The clauses of a for loop.  for_loop_condition answers the exit jump,   *)
(* if there is a condition; for_loop_increment answers the address the     *)
(* body jumps back to.                                                     *)
for_loop_init(c, init) ==
    CASE init.kind = "none" -> Ok(c)
      [] init.kind = "var" -> var_declaration(c, init.name, init.e)
      [] OTHER -> expression_statement(c, init.e)

for_loop_condition(c, cond) ==
    IF cond.kind = "none"
    THEN [ok |-> TRUE, c |-> c, msg |-> "", some |-> FALSE, jump |-> 0]
    ELSE With(expression(c, cond), LAMBDA value :
         IF ~value.ok
         THEN [ok |-> FALSE, c |-> value.c, msg |-> value.msg, some |-> FALSE, jump |-> 0]
         ELSE With(emit_jump(value.c, "OpJumpIfFalse"), LAMBDA c1 :
              [ok |-> TRUE, c |-> emit_pop(c1), msg |-> "", some |-> TRUE,
               jump |-> LastAddress(c1)]))

(* for_loop_increment, had it emitted the increment in place, with no    *)
(* jump over it to the body and no jump back to the condition.             *)
for_loop_increment_in_place(c, incr, loop_start) ==
    IF incr.kind = "none"
    THEN [ok |-> TRUE, c |-> c, msg |-> "", address |-> loop_start]
    ELSE With(expression(c, incr), LAMBDA value :
         IF ~value.ok
         THEN [ok |-> FALSE, c |-> value.c, msg |-> value.msg, address |-> 0]
         ELSE [ok |-> TRUE, c |-> emit_pop(value.c), msg |-> "",
               address |-> loop_start])

for_loop_increment(c, incr, loop_start) ==
    IF incr.kind = "none"
    THEN [ok |-> TRUE, c |-> c, msg |-> "", address |-> loop_start]
    ELSE With(emit_jump(c, "OpJump"), LAMBDA c1 :
         LET body_jump == LastAddress(c1)
             increment_start == Len(c1.function.chunk.code) - 1
         IN With(expression(c1, incr), LAMBDA value :
            IF ~value.ok
            THEN [ok |-> FALSE, c |-> value.c, msg |-> value.msg, address |-> 0]
            ELSE [ok |-> TRUE,
                  c |-> patch_jump(emit_jump_back(emit_pop(value.c), loop_start),
                                   body_jump),
                  msg |-> "", address |-> increment_start]))

for_statement(c, s) ==
    With(for_loop_init(begin_scope(c), s.init), LAMBDA init :
    IF ~init.ok THEN init
    ELSE LET loop_start == Len(init.c.function.chunk.code) - 1 IN
         With(for_loop_condition(Anchored(init.c), s.cond), LAMBDA loop_exit_jump :
         IF ~loop_exit_jump.ok THEN Fail(loop_exit_jump.c, loop_exit_jump.msg)
         ELSE With(for_loop_increment(loop_exit_jump.c, s.incr, loop_start),
                   LAMBDA jump_after_body :
              IF ~jump_after_body.ok
              THEN Fail(jump_after_body.c, jump_after_body.msg)
              ELSE With(statement(jump_after_body.c, s.body), LAMBDA body :
                   IF ~body.ok THEN body
                   ELSE With(emit_jump_back(body.c, jump_after_body.address),
                             LAMBDA c1 :
                        Ok(end_scope(IF loop_exit_jump.some
                                     THEN emit_pop(patch_jump(c1, loop_exit_jump.jump))
                                     ELSE c1)))))))

statement(c, s) ==
    CASE s.kind = "print" -> print_statement(c, s.e)
      [] s.kind = "if" -> if_statement(c, s)
      [] s.kind = "while" -> while_statement(c, s)
      [] s.kind = "for" -> for_statement(c, s)
      [] s.kind = "block" ->
            With(block(begin_scope(c), s.decls), LAMBDA body :
            IF ~body.ok THEN body ELSE Ok(end_scope(body.c)))
      [] OTHER -> expression_statement(c, s.e)

declaration(c, s) ==
    IF s.kind = "var" THEN var_declaration(c, s.name, s.e) ELSE statement(c, s)

----------------------------------------------------------------------------
(* scan.rs: the scanner.  A text is a sequence of characters, each a       *)
(* string; a character outside ASCII takes more than one byte of the       *)
(* String that holds the text.                                             *)

NUL == "NUL"
EAcute == "U+00E9"

Lower == {"a", "b", "c", "d", "e", "f", "g", "h", "i", "j", "k", "l", "m", "n",
          "o", "p", "q", "r", "s", "t", "u", "v", "w", "x", "y", "z"}
Upper == {"A", "Z"}
Digits == {"0", "1", "2", "3", "4", "5", "6", "7", "8", "9"}

(* char::len_utf8                                                          *)
Utf8Len(c) == IF c = EAcute THEN 2 ELSE 1

(* String::len: the length of the text in bytes.                           *)
RECURSIVE ByteLen(_)
ByteLen(text) == IF text = <<>> THEN 0 ELSE Utf8Len(text[1]) + ByteLen(Tail(text))

(* The characters that begin at a byte of the text: that byte's index for  *)
(* each.                                                                   *)
ByteOffset(text, i) == ByteLen(SubSeq(text, 1, i))
is_char_boundary(text, n) == \E i \in 0 .. Len(text) : ByteOffset(text, i) = n
CharsBefore(text, n) == CHOOSE i \in 0 .. Len(text) : ByteOffset(text, i) = n

(* text[from..to], a slice by bytes: it panics if an end is past the text  *)
(* or inside a character.                                                  *)
SliceOk(text, from, to) ==
    from <= to /\ is_char_boundary(text, from) /\ is_char_boundary(text, to)
Slice(text, from, to) == SubSeq(text, CharsBefore(text, from) + 1, CharsBefore(text, to))

RECURSIVE Join(_)
Join(chars) == IF chars = <<>> THEN "" ELSE chars[1] \o Join(Tail(chars))

(* What chars().nth(n).unwrap() does when the text has no n-th character.  *)
Unwrapped == "unwrap on None"

Source_new(text) == [text |-> text, start |-> 0, current |-> 0, line |-> 1]

(* No parser has been made.                                                *)
NoParser == <<>>

Token_new(token_type, lexeme, line) ==
    [token_type |-> token_type, lexeme |-> lexeme, line |-> line]
NoToken == Token_new("", "", 0)

(* What a function of the scanner answers: the source as it leaves it and  *)
(* the token, or that it panicked.                                         *)
Scanned(source, token) == [source |-> source, token |-> token, panic |-> FALSE]
Panicked(source) == [source |-> source, token |-> NoToken, panic |-> TRUE]

is_digit(c) == c \in Digits
is_alpha(c) == c \in Lower \cup Upper \cup {"_"}

nth_char(text, n) ==
    IF ByteLen(text) = n THEN NUL
    ELSE IF n < Len(text) THEN text[n + 1] ELSE Unwrapped

is_at_end(source) == nth_char(source.text, source.current) = NUL

(* advance answers the character peek answers, and moves on.               *)
advance(source) == [source EXCEPT !.current = @ + 1]

error_token(line, message) == Token_new("Error", message, line)

(* make_token, had it moved past the end of the lexeme it took.           *)
make_token_and_move(source, token_type) ==
    IF ~SliceOk(source.text, source.start, source.current) THEN Panicked(source)
    ELSE Scanned(advance(source),
                 Token_new(token_type,
                           Join(Slice(source.text, source.start, source.current)),
                           source.line))

make_token(source, token_type) ==
    IF ~SliceOk(source.text, source.start, source.current) THEN Panicked(source)
    ELSE Scanned(source,
                 Token_new(token_type,
                           Join(Slice(source.text, source.start, source.current)),
                           source.line))

peek(source) == nth_char(source.text, source.current)

peek_next(source) ==
    IF is_at_end(source) THEN NUL ELSE nth_char(source.text, source.current + 1)

(* The source after match_char, which moves on if the character is c.      *)
match_char(source, c) ==
    IF is_at_end(source) \/ nth_char(source.text, source.current) # c THEN source
    ELSE [source EXCEPT !.current = @ + 1]

check_keyword(source, start, rest, token_type) ==
    LET length == Len(rest)
        head_of_token == source.start + start
        tail_of_token == head_of_token + length
    IN IF source.current - source.start # start + length
       THEN [token_type |-> "Identifier", panic |-> FALSE]
       ELSE IF ~SliceOk(source.text, head_of_token, tail_of_token)
       THEN [token_type |-> "", panic |-> TRUE]
       ELSE IF Slice(source.text, head_of_token, tail_of_token) # rest
       THEN [token_type |-> "Identifier", panic |-> FALSE]
       ELSE [token_type |-> token_type, panic |-> FALSE]

identifier_type(source) ==
    With(nth_char(source.text, source.start), LAMBDA first :
    With(nth_char(source.text, source.start + 1), LAMBDA second :
       CASE first = Unwrapped -> [token_type |-> "", panic |-> TRUE]
         [] first = "a" -> check_keyword(source, 1, <<"n", "d">>, "And")
         [] first = "c" -> check_keyword(source, 1, <<"l", "a", "s", "s">>, "Class")
         [] first = "e" -> check_keyword(source, 1, <<"l", "s", "e">>, "Else")
         [] first = "f" ->
               CASE second = Unwrapped -> [token_type |-> "", panic |-> TRUE]
                 [] second = "a" -> check_keyword(source, 2, <<"l", "s", "e">>, "False")
                 [] second = "o" -> check_keyword(source, 2, <<"r">>, "For")
                 [] second = "u" -> check_keyword(source, 2, <<"n">>, "Fun")
                 [] OTHER -> [token_type |-> "Identifier", panic |-> FALSE]
         [] first = "i" -> check_keyword(source, 1, <<"f">>, "If")
         [] first = "n" -> check_keyword(source, 1, <<"i", "l">>, "Nil")
         [] first = "o" -> check_keyword(source, 1, <<"r">>, "Or")
         [] first = "p" -> check_keyword(source, 1, <<"r", "i", "n", "t">>, "Print")
         [] first = "r" -> check_keyword(source, 1, <<"e", "t", "u", "r", "n">>, "Return")
         [] first = "s" -> check_keyword(source, 1, <<"u", "p", "e", "r">>, "Super")
         [] first = "t" ->
               CASE second = Unwrapped -> [token_type |-> "", panic |-> TRUE]
                 [] second = "h" -> check_keyword(source, 2, <<"i", "s">>, "This")
                 [] second = "r" -> check_keyword(source, 2, <<"u", "e">>, "True")
                 [] OTHER -> [token_type |-> "Identifier", panic |-> FALSE]
         [] first = "v" -> check_keyword(source, 1, <<"a", "r">>, "Var")
         [] first = "w" -> check_keyword(source, 1, <<"h", "i", "l", "e">>, "While")
         [] OTHER -> [token_type |-> "Identifier", panic |-> FALSE]))

(* while is_digit(peek(source)) { advance(source); }                       *)
RECURSIVE SkipDigits(_)
SkipDigits(source) ==
    IF peek(source) = Unwrapped THEN Panicked(source)
    ELSE IF is_digit(peek(source)) THEN SkipDigits(advance(source))
    ELSE Scanned(source, NoToken)

number(source) ==
    With(SkipDigits(source), LAMBDA whole :
    IF whole.panic THEN whole
    ELSE IF peek(whole.source) = "." /\ peek_next(whole.source) = Unwrapped
    THEN Panicked(whole.source)
    ELSE IF peek(whole.source) = "." /\ is_digit(peek_next(whole.source))
    THEN With(SkipDigits(advance(whole.source)), LAMBDA fraction :
         IF fraction.panic THEN fraction ELSE make_token(fraction.source, "Number"))
    ELSE make_token(whole.source, "Number"))

RECURSIVE identifier(_)
identifier(source) ==
    IF peek(source) = Unwrapped THEN Panicked(source)
    ELSE IF is_alpha(peek(source)) \/ is_digit(peek(source))
    THEN identifier(advance(source))
    ELSE With(identifier_type(source), LAMBDA type :
         IF type.panic THEN Panicked(source) ELSE make_token(source, type.token_type))

(* while peek(source) != '\n' && !is_at_end(source) { advance(source); }   *)
RECURSIVE SkipComment(_)
SkipComment(source) ==
    IF peek(source) = Unwrapped THEN Panicked(source)
    ELSE IF peek(source) # "\n" /\ ~is_at_end(source) THEN SkipComment(advance(source))
    ELSE Scanned(source, NoToken)

RECURSIVE skip_white_space(_)
skip_white_space(source) ==
    With(peek(source), LAMBDA c :
    CASE c = Unwrapped -> Panicked(source)
      [] c \in {" ", "\r", "\t"} -> skip_white_space(advance(source))
      [] c = "\n" -> skip_white_space(advance([source EXCEPT !.line = @ + 1]))
      [] c = "/" ->
            IF peek_next(source) = Unwrapped THEN Panicked(source)
            ELSE IF peek_next(source) # "/" THEN Scanned(source, NoToken)
            ELSE With(SkipComment(source), LAMBDA comment :
                 IF comment.panic THEN comment ELSE skip_white_space(comment.source))
      [] OTHER -> Scanned(source, NoToken))

RECURSIVE string(_)
string(source) ==
    IF peek(source) = Unwrapped THEN Panicked(source)
    ELSE IF peek(source) # "\"" /\ ~is_at_end(source)
    THEN string(advance(IF peek(source) = "\n"
                        THEN [source EXCEPT !.line = @ + 1] ELSE source))
    ELSE IF is_at_end(source)
    THEN Scanned(source, error_token(source.line, "Unterminated string."))
    ELSE make_token(advance(source), "LString")

(* The token of a character that is a token of its own.                    *)
SingleCharacter ==
    [c \in {"(", ")", "{", "}", ";", ",", ".", "-", "+", "*", "/"} |->
        CASE c = "(" -> "LeftParen" [] c = ")" -> "RightParen"
          [] c = "{" -> "LeftBrace" [] c = "}" -> "RightBrace"
          [] c = ";" -> "Semicolon" [] c = "," -> "Comma" [] c = "." -> "Dot"
          [] c = "-" -> "Minus" [] c = "+" -> "Plus" [] c = "*" -> "Star"
          [] c = "/" -> "Slash"]

(* The tokens of a character that `=` may follow: with it and without.     *)
OneOrTwoCharacters ==
    [c \in {"!", "=", "<", ">"} |->
        CASE c = "!" -> <<"BangEqual", "Bang">>
          [] c = "=" -> <<"EqualEqual", "Equal">>
          [] c = "<" -> <<"LessEqual", "Less">>
          [] c = ">" -> <<"GreaterEqual", "Greater">>]

scan_token(source0) ==
    With(skip_white_space(source0), LAMBDA skipped :
    IF skipped.panic THEN skipped
    ELSE With([skipped.source EXCEPT !.start = skipped.source.current], LAMBDA source :
         With(peek(source), LAMBDA c :
         With(advance(source), LAMBDA source1 :
            CASE c = Unwrapped -> Panicked(source)
              [] c = NUL -> make_token(source, "EOF")
              [] is_alpha(c) -> identifier(source1)
              [] is_digit(c) -> number(source1)
              [] c \in DOMAIN SingleCharacter -> make_token(source1, SingleCharacter[c])
              [] c = "\"" -> string(source1)
              [] c \in DOMAIN OneOrTwoCharacters ->
                    With(match_char(source1, "="), LAMBDA matched :
                    IF peek(source1) = Unwrapped THEN Panicked(source1)
                    ELSE make_token(matched,
                                    IF matched.current # source1.current
                                    THEN OneOrTwoCharacters[c][1]
                                    ELSE OneOrTwoCharacters[c][2]))
              [] OTHER ->
                    Scanned(source1, error_token(source1.line, "Unexpected character."))))))

----------------------------------------------------------------------------
(* The statements of a source, as the parser meets them.                   *)

Stmt(kind, name, e) == [kind |-> kind, name |-> name, e |-> e]

VAR(name, init) == Stmt("var", name, init)
PRINT(e) == Stmt("print", "", e)
EXPR(e) == Stmt("expr", "", e)
LBRACE == Stmt("{", "", NoExpr)
RBRACE == Stmt("}", "", NoExpr)
FUN(name, params) == [kind |-> "fun", name |-> name, e |-> NoExpr, params |-> params]
ENDFUN == Stmt("endfun", "", NoExpr)
NoStmt == Stmt("none", "", NoExpr)
BLOCK(decls) == [kind |-> "block", decls |-> decls]
IF_(cond, then_branch, else_branch) ==
    [kind |-> "if", cond |-> cond, then_branch |-> then_branch,
     else_branch |-> else_branch]
WHILE(cond, body) == [kind |-> "while", cond |-> cond, body |-> body]
FOR(init, cond, incr, body) ==
    [kind |-> "for", init |-> init, cond |-> cond, incr |-> incr, body |-> body]

ClockValues == {100}

(* A VM and a compiler that have done nothing yet.                         *)
NewInterpreter ==
    /\ history = <<>>
    /\ phase = "compile"
    /\ src = <<>>
    /\ compiler = RootCompiler
    /\ enclosing = <<>>
    /\ stack = <<>>
    /\ frames = <<>>
    /\ globals = NewGlobals
    /\ output = <<>>
    /\ err = ""
    /\ received = <<>>

Init ==
    /\ NewInterpreter
    /\ input = Source_new(<<>>)
    /\ tokens = <<>>
    /\ parser = NoParser

vmVars == <<stack, frames, globals, output, received>>

(* Parsed, had interpret() gone on to push a frame for the function of a   *)
(* compilation that failed.                                                *)
ParsedThenFramed(s, r) ==
    /\ src' = Append(src, s)
    /\ compiler' = r.c
    /\ phase' = IF r.ok THEN "compile" ELSE "compile_error"
    /\ err' = r.msg
    /\ frames' = IF r.ok THEN frames ELSE Append(frames, CallFrame(r.c.function, 0))
    /\ UNCHANGED <<scanVars, history, enclosing, stack, globals, output, received>>

(* One declaration() of the loop of Parser::parse, on statement `s`, whose *)
(* compilation gave `r`.  A failure ends interpret() with CompileError; a  *)
(* subtraction that went below 0 is a panic in a debug build.              *)
Parsed(s, r) ==
    /\ src' = Append(src, s)
    /\ compiler' = r.c
    /\ phase' \in {IF r.ok THEN "compile" ELSE "compile_error"}
                      \cup (IF r.c.underflow /\ ~compiler.underflow
                            THEN {"panic"} ELSE {})
    /\ err' = r.msg
    /\ UNCHANGED <<scanVars, history, enclosing, vmVars>>

CanParse == phase = "compile"

VarDeclaration(name, init) ==
    /\ CanParse
    /\ Parsed(VAR(name, init), var_declaration(compiler, name, init))

PrintStatement(e) ==
    /\ CanParse
    /\ Parsed(PRINT(e), print_statement(compiler, e))

ExpressionStatement(e) ==
    /\ CanParse
    /\ Parsed(EXPR(e), expression_statement(compiler, e))

(* One declaration() of Parser::parse on a whole declaration, the         *)
(* statements nested in it included.                                       *)
Declaration(s) ==
    /\ CanParse
    /\ Parsed(s, declaration(compiler, s))

(* statement() on '{': begin_scope, then block() parses what follows.      *)
BeginBlock ==
    /\ CanParse
    /\ compiler.env.scope_depth < MaxDepth
    /\ Parsed(LBRACE, Ok(begin_scope(compiler)))

(* The scope depth of the body of the function being compiled.            *)
BodyDepth == IF compiler.function_type = "Function" THEN 1 ELSE 0

(* block() meets '}', and statement() ends the scope.                      *)
EndBlock ==
    /\ CanParse
    /\ compiler.env.scope_depth > BodyDepth
    /\ Parsed(RBRACE, Ok(end_scope(compiler)))

(* fun name ( params ) {  -- the name is declared in the enclosing scope   *)
(* and marked initialized at once; the enclosing compiler is put aside and *)
(* a fresh one, at scope depth 1, takes the parameters as its first locals.*)
RECURSIVE parameters(_, _)
parameters(c, params) ==
    IF params = <<>> THEN c
    ELSE parameters(mark_initialized(add_local([c EXCEPT !.function.arity = @ + 1],
                                               params[1])),
                    Tail(params))

function_compiler(name, params) ==
    parameters(begin_scope([NewCompiler("Function") EXCEPT !.function.name = name]),
               params)

BeginFunction(name, params) ==
    /\ CanParse
    /\ LET variable == parse_variable(compiler, name) IN
         /\ src' = Append(src, FUN(name, params))
         /\ UNCHANGED <<scanVars, history, vmVars>>
         /\ IF ~variable.ok
            THEN /\ phase' = "compile_error"
                 /\ err' = variable.msg
                 /\ UNCHANGED <<compiler, enclosing>>
            ELSE /\ enclosing' = Append(enclosing,
                                        [compiler |-> mark_initialized(variable.c),
                                         global |-> variable.global])
                 /\ compiler' = function_compiler(name, params)
                 /\ UNCHANGED <<phase, err>>

(* } of a function body: Nil and Return end the function, the enclosing    *)
(* compiler comes back, loads the function as a constant and defines the   *)
(* name.                                                                   *)
function_defined(outer, function) ==
    LET loaded == emit_constant(outer.compiler, function) IN
    IF is_local(loaded) THEN define_local_variable(loaded)
    ELSE define_global_variable(loaded, outer.global)

EndFunction ==
    /\ CanParse
    /\ compiler.function_type = "Function"
    /\ compiler.env.scope_depth = 1
    /\ src' = Append(src, ENDFUN)
    /\ compiler' = function_defined(Last(enclosing), end_compiler(compiler).function)
    /\ enclosing' = Front(enclosing)
    /\ UNCHANGED <<scanVars, history, phase, err, vmVars>>

(* The source ends.  Inside a block that is block()'s error; otherwise     *)
(* compile() ends the script function and interpret() pushes its frame     *)
(* and runs it.                                                            *)
EndOfSource ==
    /\ phase = "compile"
    /\ src' = src
    /\ UNCHANGED <<scanVars, history, enclosing, stack, globals, output, received>>
    /\ IF compiler.env.scope_depth > 0
       THEN /\ phase' = "compile_error"
            /\ err' = "Expect '}' after block."
            /\ UNCHANGED <<compiler, frames>>
       ELSE /\ compiler' = end_compiler(compiler)
            /\ frames' = Append(frames, CallFrame(compiler'.function, 0))
            /\ phase' = "run"
            /\ err' = ""

(* One turn of VM::run.                                                    *)
Step ==
    /\ phase = "run"
    /\ \E now \in ClockValues :
         LET vm == Exec([stack |-> stack, frames |-> frames, globals |-> globals,
                         output |-> output, phase |-> phase, err |-> err,
                         received |-> received], now)
         IN /\ stack' = vm.stack
            /\ frames' = vm.frames
            /\ globals' = vm.globals
            /\ output' = vm.output
            /\ received' = vm.received
            /\ phase' = vm.phase
            /\ err' = vm.err
    /\ UNCHANGED <<scanVars, history, src, compiler, enclosing>>

(* Up to n turns of the loop of VM::run, taken without looking at the VM  *)
(* in between; the loop ends early when run() returns.                     *)
RECURSIVE Turns(_, _, _)
Turns(vm, now, n) ==
    IF n = 0 \/ vm.phase # "run" THEN vm
    ELSE IF n = 1 THEN Exec(vm, now)
    ELSE With(Turns(vm, now, n \div 2), LAMBDA half :
              Turns(half, now, n - (n \div 2)))

Burst ==
    /\ phase = "run"
    /\ \E now \in ClockValues :
         \E vm \in {Turns([stack |-> stack, frames |-> frames, globals |-> globals,
                           output |-> output, phase |-> phase, err |-> err,
                         received |-> received],
                          now, BurstLen)} :
            /\ stack' = vm.stack
            /\ frames' = vm.frames
            /\ globals' = vm.globals
            /\ output' = vm.output
            /\ received' = vm.received
            /\ phase' = vm.phase
            /\ err' = vm.err
    /\ UNCHANGED <<scanVars, history, src, compiler, enclosing>>

(* One turn of the loop of repl(): the interpret() of the last line has   *)
(* returned, Ok or Err, and the next line is compiled and interpreted on   *)
(* the same VM.  A panic ends the process.                                 *)
Returned == phase \in {"done", "runtime_error", "compile_error"}

ReadLine ==
    /\ Returned
    /\ history' = Append(history, src)
    /\ src' = <<>>
    /\ compiler' = RootCompiler
    /\ enclosing' = <<>>
    /\ phase' = "compile"
    /\ err' = ""
    /\ UNCHANGED <<scanVars, vmVars>>

----------------------------------------------------------------------------
(* Scripts of declarations, blocks, prints and assignments over Names.     *)

More(bound) == Len(src) < bound

LocalsInits == {NoExpr, ENum(1)}
LocalsReads == {EVar(n) : n \in Names}
LocalsWrites == {EAssign(n, ENum(3)) : n \in Names}

NextLocals ==
    \/ \E n \in Names, i \in LocalsInits : More(MaxStmts) /\ VarDeclaration(n, i)
    \/ \E e \in LocalsReads : More(MaxStmts) /\ PrintStatement(e)
    \/ \E e \in LocalsWrites : More(MaxStmts) /\ ExpressionStatement(e)
    \/ More(MaxStmts) /\ BeginBlock
    \/ More(MaxStmts) /\ EndBlock
    \/ EndOfSource
    \/ Step

SpecLocals == Init /\ [][NextLocals]_vars

(* Longer scripts over the one name "a", where a declaration may read the  *)
(* name it declares.                                                       *)

ShadowInits == {NoExpr, ENum(1), EVar("a")}

NextShadow ==
    \/ \E i \in ShadowInits : More(MaxShadowStmts) /\ VarDeclaration("a", i)
    \/ More(MaxShadowStmts) /\ PrintStatement(EVar("a"))
    \/ More(MaxShadowStmts) /\ BeginBlock
    \/ More(MaxShadowStmts) /\ EndBlock
    \/ EndOfSource
    \/ Step

SpecShadow == Init /\ [][NextShadow]_vars

(* Scripts at global scope only: declarations, reads and assignments of   *)
(* globals that may or may not have been defined.                          *)

NextGlobals ==
    \/ \E n \in Names, i \in LocalsInits : More(MaxGlobalStmts) /\ VarDeclaration(n, i)
    \/ \E e \in LocalsReads : More(MaxGlobalStmts) /\ PrintStatement(e)
    \/ \E e \in LocalsWrites : More(MaxGlobalStmts) /\ ExpressionStatement(e)
    \/ EndOfSource
    \/ Step

SpecGlobals == Init /\ [][NextGlobals]_vars

(* Scripts that print `l and r` or `l or r`, after declaring the global a *)
(* or not.  The right operands are told from the left ones by their value, *)
(* and one of them assigns to a.                                           *)

LogicLeft ==
    {ELit("false"), ELit("nil"), ELit("true"), ENum(0), EStr(""), EVar("a")}
LogicRight ==
    {ELit("true"), ELit("false"), EAssign("a", ENum(3)), EAnd(ELit("true"), ENum(2))}
LogicExprs ==
    {EAnd(l, r) : l \in LogicLeft, r \in LogicRight}
        \cup {EOr(l, r) : l \in LogicLeft, r \in LogicRight}

NextLogic ==
    \/ \E i \in {ELit("false"), ENum(1)} :
          More(MaxLogicStmts) /\ VarDeclaration("a", i)
    \/ \E e \in LogicExprs : More(MaxLogicStmts) /\ PrintStatement(e)
    \/ EndOfSource
    \/ Step

SpecLogic == Init /\ [][NextLogic]_vars

(* Scripts that declare the function f, of no or one parameter, whose    *)
(* body prints and calls, and that call f, the native clock and the number *)
(* 1, with no or one argument.                                             *)

CallParams == {<<>>, <<"p">>}
Callees == {EVar("f"), EVar("clock"), ENum(1)}
CallArgs == {<<>>, <<ENum(2)>>}
Calls == {ECall(c, a) : c \in Callees, a \in CallArgs}

NextCalls ==
    \/ \E ps \in CallParams : More(MaxCallStmts) /\ BeginFunction("f", ps)
    \/ More(MaxCallStmts) /\ EndFunction
    \/ More(MaxCallStmts) /\ PrintStatement(EVar("p"))
    \/ \E e \in Calls : More(MaxCallStmts) /\ PrintStatement(e)
    \/ EndOfSource
    \/ Step

SpecCalls == Init /\ [][NextCalls]_vars

(* The REPL: lines that declare and call the recursive function f, read   *)
(* the global a and declare it, interpreted one after the other on one VM. *)

RECURSIVE Statements(_)
Statements(lines) ==
    IF lines = <<>> THEN 0 ELSE Len(lines[1]) + Statements(Tail(lines))

MoreRepl == Statements(history) + Len(src) < MaxReplStmts

NextRepl ==
    \/ MoreRepl /\ BeginFunction("f", <<>>)
    \/ MoreRepl /\ EndFunction
    \/ MoreRepl /\ PrintStatement(ECall(EVar("f"), <<>>))
    \/ MoreRepl /\ PrintStatement(EVar("a"))
    \/ MoreRepl /\ VarDeclaration("a", ENum(1))
    \/ EndOfSource
    \/ Step
    \/ Len(history) + 1 < MaxLines /\ ReadLine

SpecRepl == Init /\ [][NextRepl]_vars

(* Long runs: a block of two locals and an endless for loop over a block  *)
(* of two locals, run BurstLen instructions at a time until the operand    *)
(* stack has outgrown STACK_MAX slots for each of FRAMES_MAX frames.       *)

TwoLocals == BLOCK(<<VAR("a", NoExpr), VAR("b", NoExpr)>>)
Forever == FOR(NoStmt, NoExpr, NoExpr, TwoLocals)

NextDeep ==
    \/ More(MaxDeepStmts) /\ Declaration(TwoLocals)
    \/ More(MaxDeepStmts) /\ Declaration(Forever)
    \/ EndOfSource
    \/ Len(stack) <= STACK_MAX * FRAMES_MAX /\ Burst

SpecDeep == Init /\ [][NextDeep]_vars

(* Scripts that compare values: each of nil, the Booleans, a number, a     *)
(* string, the native clock and the function f with itself and with the    *)
(* number 1.                                                               *)

Operands == {ELit("nil"), ELit("true"), ELit("false"), ENum(0), EStr(""),
             EVar("clock"), EVar("f")}

NextEqual ==
    \/ More(MaxEqualStmts) /\ BeginFunction("f", <<>>)
    \/ More(MaxEqualStmts) /\ EndFunction
    \/ \E l \in Operands : \E r \in {l, ENum(1)} :
          More(MaxEqualStmts) /\ PrintStatement(EBinary("==", l, r))
    \/ EndOfSource
    \/ Step

SpecEqual == Init /\ [][NextEqual]_vars

(* Scripts that negate a value and that test one with `and`: nil, the     *)
(* Booleans, the number 0, the empty string, the native clock and the      *)
(* function f.                                                             *)

NextFalsey ==
    \/ More(MaxFalseyStmts) /\ BeginFunction("f", <<>>)
    \/ More(MaxFalseyStmts) /\ EndFunction
    \/ \E e \in Operands : More(MaxFalseyStmts) /\ PrintStatement(EUnary("!", e))
    \/ \E e \in Operands : More(MaxFalseyStmts) /\ PrintStatement(EAnd(e, ENum(1)))
    \/ EndOfSource
    \/ Step

SpecFalsey == Init /\ [][NextFalsey]_vars

(* Scripts with one for loop over i, global or declared by the loop, that *)
(* prints i: each clause present or absent, the body a statement or a      *)
(* block.  A loop that never ends is run until it has printed MaxPrints    *)
(* values.                                                                 *)

Inits == {NoStmt, VAR("i", ENum(0)), EXPR(EAssign("i", ENum(1)))}
Conds == {NoExpr, EBinary("<", EVar("i"), ENum(Limit))}
Incrs == {NoExpr, EAssign("i", EBinary("+", EVar("i"), ENum(1)))}
Bodies == {PRINT(EVar("i")), BLOCK(<<PRINT(EVar("i"))>>)}

Loops == {j \in 1..Len(src) : src[j].kind = "for"}

RunCapped == Len(output) < MaxPrints /\ Step

NextFor ==
    \/ \E k \in {0, 2} : More(MaxForStmts) /\ VarDeclaration("i", ENum(k))
    \/ \E init \in Inits : \E cond \in Conds : \E incr \in Incrs : \E body \in Bodies :
          More(MaxForStmts) /\ Loops = {} /\ Declaration(FOR(init, cond, incr, body))
    \/ EndOfSource
    \/ RunCapped

(* VM::run goes on until it returns.                                       *)
SpecFor == Init /\ [][NextFor]_vars /\ WF_vars(RunCapped)

(* Scripts that end with a while loop over the global i, declared before  *)
(* the loop or not at all: the condition is `i < Limit` or `false`, the    *)
(* body increments i, in a block that prints it first or on its own.       *)

Increment == EXPR(EAssign("i", EBinary("+", EVar("i"), ENum(1))))
WhileConds == {EBinary("<", EVar("i"), ENum(Limit)), ELit("false")}
WhileBodies == {Increment, BLOCK(<<PRINT(EVar("i")), Increment>>)}

WhileLast == src # <<>> /\ Last(src).kind = "while"

NextWhile ==
    \/ \E k \in {0, 2} :
          More(MaxWhileStmts) /\ ~WhileLast /\ VarDeclaration("i", ENum(k))
    \/ \E cond \in WhileConds : \E body \in WhileBodies :
          More(MaxWhileStmts) /\ ~WhileLast /\ Declaration(WHILE(cond, body))
    \/ EndOfSource
    \/ Step

SpecWhile == Init /\ [][NextWhile]_vars

(* Scripts that end with an if statement, after declarations of the      *)
(* global a: the condition is a literal, the branches print 1 and 2, on    *)
(* their own or in a block, and the else branch may be absent.             *)

IfConds == {ELit("true"), ELit("false"), ELit("nil"), ENum(0), EStr("")}
ThenBranches == {PRINT(ENum(1)), BLOCK(<<PRINT(ENum(1))>>)}
ElseBranches == {NoStmt, PRINT(ENum(2)), BLOCK(<<PRINT(ENum(2))>>)}

IfLast == src # <<>> /\ Last(src).kind = "if"

NextIf ==
    \/ \E k \in {0, 2} :
          More(MaxIfStmts) /\ ~IfLast /\ VarDeclaration("a", ENum(k))
    \/ \E cond \in IfConds : \E then_branch \in ThenBranches :
       \E else_branch \in ElseBranches :
          More(MaxIfStmts) /\ ~IfLast
              /\ Declaration(IF_(cond, then_branch, else_branch))
    \/ EndOfSource
    \/ Step

SpecIf == Init /\ [][NextIf]_vars

(* Scripts whose statements jump: while and for loops over i, a loop with *)
(* an if in its body, if statements with and without else, and prints of   *)
(* `and` and `or`; any of them may be the last statement of the script.    *)

JumpConds == {ELit("true"), ELit("false")}
JumpLoops ==
    {WHILE(EBinary("<", EVar("i"), ENum(Limit)), body) :
        body \in {Increment,
                  BLOCK(<<IF_(EBinary("<", EVar("i"), ENum(1)), PRINT(EVar("i")), NoStmt),
                          Increment>>)}}
        \cup {FOR(VAR("i", ENum(0)), EBinary("<", EVar("i"), ENum(Limit)),
                  EAssign("i", EBinary("+", EVar("i"), ENum(1))), PRINT(EVar("i")))}
JumpBranches ==
    {IF_(cond, PRINT(ENum(1)), else_branch) :
        cond \in JumpConds, else_branch \in {NoStmt, PRINT(ENum(2))}}
JumpPrints ==
    {PRINT(EAnd(l, ENum(1))) : l \in JumpConds}
        \cup {PRINT(EOr(l, ENum(1))) : l \in JumpConds}

NextJumps ==
    \/ More(MaxJumpStmts) /\ VarDeclaration("i", ENum(0))
    \/ \E s \in JumpLoops \cup JumpBranches : More(MaxJumpStmts) /\ Declaration(s)
    \/ \E s \in JumpPrints : More(MaxJumpStmts) /\ PrintStatement(s.e)
    \/ EndOfSource
    \/ Step

SpecJumps == Init /\ [][NextJumps]_vars

(* Scripts that print `l op r` for two numbers, where l / r is a whole     *)
(* number, for two strings, and for a number and a string.                 *)

BinaryTokens == {"+", "-", "*", "/", ">", "<"}
NumberPairs == {<<6, 3>>, <<3, 1>>, <<3, 3>>}
StringPairs == {<<"a", "b">>, <<"b", "a">>, <<"", "a">>}
BinaryExprs ==
    {EBinary(op, ENum(p[1]), ENum(p[2])) : op \in BinaryTokens, p \in NumberPairs}
        \cup {EBinary(op, EStr(p[1]), EStr(p[2])) : op \in {"+", "-"}, p \in StringPairs}
        \cup {EBinary("+", ENum(1), EStr("a")), EBinary("+", EStr("a"), ENum(1))}

NextBinary ==
    \/ \E e \in BinaryExprs : More(MaxBinaryStmts) /\ PrintStatement(e)
    \/ EndOfSource
    \/ Step

SpecBinary == Init /\ [][NextBinary]_vars

(* The scanner on its own: a source of any text of up to MaxTextLen        *)
(* characters, among them one that starts no token and one outside ASCII,  *)
(* asked for up to MaxScans tokens.  A call that panics ends the process.  *)

ScanChars == {"a", "1", ".", " ", "\n", "/", "\"", "=", "@", EAcute}

RECURSIVE TextsOf(_, _)
TextsOf(chars, n) ==
    IF n = 0 THEN {<<>>}
    ELSE LET shorter == TextsOf(chars, n - 1)
         IN shorter \cup {Append(t, c) : t \in shorter, c \in chars}

InitScan ==
    /\ NewInterpreter
    /\ input \in {Source_new(text) : text \in TextsOf(ScanChars, MaxTextLen)}
    /\ tokens = <<>>
    /\ parser = NoParser

ScanToken ==
    /\ phase = "compile"
    /\ Len(tokens) < MaxScans
    /\ LET scanned == scan_token(input) IN
       IF scanned.panic
       THEN phase' = "panic" /\ UNCHANGED scanVars
       ELSE /\ input' = scanned.source
            /\ tokens' = Append(tokens, scanned.token)
            /\ phase' = phase
            /\ parser' = parser
    /\ UNCHANGED <<history, src, compiler, enclosing, vmVars, err>>

NextScan == ScanToken

SpecScan == InitScan /\ [][NextScan]_vars

(* The scanner on words: each of the 16 keywords, each proper prefix of   *)
(* one, and each of those with a letter or a digit after it, alone in the  *)
(* text or after a character outside ASCII, with or without a space after. *)

Keywords ==
    {<<"a", "n", "d">>,
     <<"c", "l", "a", "s", "s">>,
     <<"e", "l", "s", "e">>,
     <<"f", "a", "l", "s", "e">>,
     <<"f", "o", "r">>,
     <<"f", "u", "n">>,
     <<"i", "f">>,
     <<"n", "i", "l">>,
     <<"o", "r">>,
     <<"p", "r", "i", "n", "t">>,
     <<"r", "e", "t", "u", "r", "n">>,
     <<"s", "u", "p", "e", "r">>,
     <<"t", "h", "i", "s">>,
     <<"t", "r", "u", "e">>,
     <<"v", "a", "r">>,
     <<"w", "h", "i", "l", "e">>}

WordPrefixes == UNION {{SubSeq(k, 1, i) : i \in 1 .. Len(k) - 1} : k \in Keywords}
Words == Keywords \cup WordPrefixes
            \cup {Append(w, c) : w \in Keywords \cup WordPrefixes, c \in {"y", "1"}}

InitKeywords ==
    /\ NewInterpreter
    /\ input \in {Source_new(before \o word \o after) :
                    before \in {<<>>, <<EAcute, " ">>}, word \in Words,
                    after \in {<<>>, <<" ">>}}
    /\ tokens = <<>>
    /\ parser = NoParser

NextKeywords == ScanToken

SpecKeywords == InitKeywords /\ [][NextKeywords]_vars

----------------------------------------------------------------------------
(* compiler/parser.rs on tokens: the Parser that asks the scanner for one  *)
(* token at a time.  A parser is its current and previous token, its       *)
(* source, the compiler `c` it emits through, and `reported`: the lines    *)
(* report_error has written to stderr, each with where the scanner and the *)
(* chunk were when it was written.                                         *)

Parser_new(source, c) ==
    [current |-> NoToken, previous |-> NoToken, source |-> source, c |-> c,
     reported |-> <<>>]

(* What a function of the parser answers: Ok with the parser as it leaves  *)
(* it (and a value, for those that answer one), Err, or a panic.           *)
ParseOk(p) == [ok |-> TRUE, p |-> p, value |-> 0, panic |-> FALSE]
ParseValue(p, value) == [ok |-> TRUE, p |-> p, value |-> value, panic |-> FALSE]
ParseErr(p) == [ok |-> FALSE, p |-> p, value |-> 0, panic |-> FALSE]
ParsePanic(p) == [ok |-> FALSE, p |-> p, value |-> 0, panic |-> TRUE]

(* result?; rest: rest runs on the parser of an Ok result, and any other   *)
(* result is returned as it is.                                            *)
Then(result, rest(_)) ==
    CHOOSE r \in {IF v.ok THEN rest(v.p) ELSE v : v \in {result}} : TRUE

report_error(p, token, message) ==
    LET position == IF token.token_type = "EOF" THEN "at end"
                    ELSE "at '" \o token.lexeme \o "'"
        line == "[line " \o ToString(token.line) \o "] Error " \o position
                    \o ": " \o message
    IN [p EXCEPT !.reported =
            Append(@, [line |-> line, current |-> p.source.current,
                       code_len |-> Len(p.c.function.chunk.code)])]

match_token_type(p, token_type) == p.current.token_type = token_type

(* Parser::advance, had it gone on to the next token after reporting an    *)
(* Error token.                                                            *)
Parser_advance_past_errors(p) ==
    With(scan_token(p.source), LAMBDA scanned :
    IF scanned.panic THEN ParsePanic(p)
    ELSE With([p EXCEPT !.previous = p.current, !.source = scanned.source,
                        !.current = scanned.token], LAMBDA p1 :
         IF scanned.token.token_type = "Error"
         THEN ParseOk(report_error(p1, scanned.token, scanned.token.lexeme))
         ELSE ParseOk(p1)))

Parser_advance(p) ==
    With(scan_token(p.source), LAMBDA scanned :
    IF scanned.panic THEN ParsePanic(p)
    ELSE With([p EXCEPT !.previous = p.current, !.source = scanned.source], LAMBDA p1 :
         IF scanned.token.token_type = "Error"
         THEN ParseErr(report_error(p1, scanned.token, scanned.token.lexeme))
         ELSE ParseOk([p1 EXCEPT !.current = scanned.token])))

(* chunk_op::emit_byte and emit_constant with the line they are given.     *)
EmitAt(p, byte, line) == [p EXCEPT !.c = emit_byte([@ EXCEPT !.line = line], byte)]
EmitAllAt(p, ops, line) == [p EXCEPT !.c = EmitAll([@ EXCEPT !.line = line], ops)]
EmitConstantAt(p, value, line) ==
    [p EXCEPT !.c = emit_constant([@ EXCEPT !.line = line], value)]

(* The compiler of a parser, for what it emits at the line of the previous *)
(* token.                                                                  *)
AtPrevious(p) == [p.c EXCEPT !.line = p.previous.line]

(* precedence.rs                                                           *)
Precedence ==
    [None |-> 0, Assignment |-> 1, Or |-> 2, And |-> 3, Equality |-> 4,
     Comparison |-> 5, Term |-> 6, Factor |-> 7, Unary |-> 8, Call |-> 9,
     Primary |-> 10]

Precedence_next(precedence) == precedence + 1

ParseRule(prefix, infix, precedence) ==
    [prefix |-> prefix, infix |-> infix, precedence |-> precedence]

get_rule(operator_type) ==
    CASE operator_type = "LeftParen" -> ParseRule("Grouping", "None", Precedence.None)
      [] operator_type = "Minus" -> ParseRule("Unary", "Binary", Precedence.Term)
      [] operator_type = "Plus" -> ParseRule("None", "Binary", Precedence.Term)
      [] operator_type \in {"Slash", "Star"} ->
            ParseRule("None", "Binary", Precedence.Factor)
      [] operator_type = "Bang" -> ParseRule("Unary", "None", Precedence.None)
      [] operator_type \in {"BangEqual", "EqualEqual"} ->
            ParseRule("None", "Binary", Precedence.Equality)
      [] operator_type \in {"Greater", "GreaterEqual", "Less", "LessEqual"} ->
            ParseRule("None", "Binary", Precedence.Comparison)
      [] operator_type = "Identifier" -> ParseRule("Variable", "None", Precedence.None)
      [] operator_type = "LString" -> ParseRule("String", "None", Precedence.None)
      [] operator_type = "Number" -> ParseRule("Number", "None", Precedence.None)
      [] operator_type = "And" -> ParseRule("None", "And", Precedence.And)
      [] operator_type \in {"False", "Nil", "True"} ->
            ParseRule("Literal", "None", Precedence.None)
      [] operator_type = "Or" -> ParseRule("None", "Or", Precedence.Or)
      [] OTHER -> ParseRule("None", "None", Precedence.None)

(* The operator of a token type, as binary() and unary() match it.         *)
OperatorOf(token_type) ==
    CASE token_type = "Plus" -> "+" [] token_type = "Minus" -> "-"
      [] token_type = "Star" -> "*" [] token_type = "Slash" -> "/"
      [] token_type = "BangEqual" -> "!=" [] token_type = "EqualEqual" -> "=="
      [] token_type = "Greater" -> ">" [] token_type = "GreaterEqual" -> ">="
      [] token_type = "Less" -> "<" [] token_type = "LessEqual" -> "<="
      [] token_type = "Bang" -> "!"

(* lexeme.parse::<f64>() on the numerals of one digit.                     *)
ParseF64 ==
    [lexeme \in Digits |->
        CASE lexeme = "0" -> 0 [] lexeme = "1" -> 1 [] lexeme = "2" -> 2
          [] lexeme = "3" -> 3 [] lexeme = "4" -> 4 [] lexeme = "5" -> 5
          [] lexeme = "6" -> 6 [] lexeme = "7" -> 7 [] lexeme = "8" -> 8
          [] lexeme = "9" -> 9]

(* value[1..value.len() - 1] on the string literals of one letter or none. *)
Unquoted ==
    [lexeme \in {"\"\"", "\"a\"", "\"b\""} |->
        CASE lexeme = "\"\"" -> "" [] lexeme = "\"a\"" -> "a" [] lexeme = "\"b\"" -> "b"]

RECURSIVE Parser_parse_precedence(_, _)
RECURSIVE exec_parse_function(_, _, _)

Parser_expression(p) == Parser_parse_precedence(p, Precedence.Assignment)

(* binary(), had it parsed its right operand at the precedence of its own  *)
(* operator.                                                               *)
Parser_binary_right_associative(p) ==
    With(p.previous, LAMBDA operator :
    With(get_rule(operator.token_type), LAMBDA rule :
    Then(Parser_parse_precedence(p, rule.precedence), LAMBDA p1 :
         ParseOk(EmitAllAt(p1, BinaryOps(OperatorOf(operator.token_type)),
                           operator.line)))))

Parser_binary(p) ==
    With(p.previous, LAMBDA operator :
    With(get_rule(operator.token_type), LAMBDA rule :
    Then(Parser_parse_precedence(p, Precedence_next(rule.precedence)), LAMBDA p1 :
         ParseOk(EmitAllAt(p1, BinaryOps(OperatorOf(operator.token_type)),
                           operator.line)))))

Parser_grouping(p) ==
    Then(Parser_expression(p), LAMBDA p1 :
         IF ~match_token_type(p1, "RightParen")
         THEN ParseErr(report_error(p1, p1.current, "Expect ')' after expression."))
         ELSE Parser_advance(p1))

Parser_unary(p) ==
    With(p.previous, LAMBDA operator :
    Then(Parser_parse_precedence(p, Precedence.Unary), LAMBDA p1 :
         ParseOk(EmitAt(p1, UnaryOp(OperatorOf(operator.token_type)), operator.line))))

(* named_variable, had it taken a following `=` for an assignment whether  *)
(* or not it may assign.                                                   *)
Parser_named_variable_assigning(p, name, can_assign) ==
    With(named_variable(p.c, name.lexeme), LAMBDA resolved :
    IF ~resolved.ok THEN ParseErr(report_error(p, name, OwnInitializer))
    ELSE With([p EXCEPT !.c = resolved.c], LAMBDA p1 :
         IF match_token_type(p1, "Equal")
         THEN Then(Parser_advance(p1), LAMBDA p2 :
              Then(Parser_expression(p2), LAMBDA p3 :
                   ParseOk(EmitAt(p3, resolved.set_op, name.line))))
         ELSE ParseOk(EmitAt(p1, resolved.get_op, name.line))))

Parser_named_variable(p, name, can_assign) ==
    With(named_variable(p.c, name.lexeme), LAMBDA resolved :
    IF ~resolved.ok THEN ParseErr(report_error(p, name, OwnInitializer))
    ELSE With([p EXCEPT !.c = resolved.c], LAMBDA p1 :
         IF can_assign /\ match_token_type(p1, "Equal")
         THEN Then(Parser_advance(p1), LAMBDA p2 :
              Then(Parser_expression(p2), LAMBDA p3 :
                   ParseOk(EmitAt(p3, resolved.set_op, name.line))))
         ELSE ParseOk(EmitAt(p1, resolved.get_op, name.line))))

Parser_variable(p, can_assign) == Parser_named_variable(p, p.previous, can_assign)

Parser_number(p) ==
    IF p.previous.lexeme \notin DOMAIN ParseF64 THEN ParsePanic(p)
    ELSE ParseOk(EmitConstantAt(p, Number(ParseF64[p.previous.lexeme]), p.previous.line))

Parser_literal(p) ==
    CASE p.previous.token_type = "False" ->
            ParseOk(EmitAt(p, Op("OpFalse", 0), p.previous.line))
      [] p.previous.token_type = "Nil" ->
            ParseOk(EmitAt(p, Op("OpNil", 0), p.previous.line))
      [] p.previous.token_type = "True" ->
            ParseOk(EmitAt(p, Op("OpTrue", 0), p.previous.line))
      [] OTHER -> ParsePanic(p)

Parser_string(p) ==
    IF p.previous.lexeme \notin DOMAIN Unquoted THEN ParsePanic(p)
    ELSE ParseOk(EmitConstantAt(p, LString(Unquoted[p.previous.lexeme]), p.previous.line))

Parser_and(p) ==
    With(emit_jump(AtPrevious(p), "OpJumpIfFalse"), LAMBDA c1 :
    With(LastAddress(c1), LAMBDA end_jump :
    Then(Parser_parse_precedence([p EXCEPT !.c = emit_pop(c1)], Precedence.And),
         LAMBDA p1 : ParseOk([p1 EXCEPT !.c = patch_jump(@, end_jump)]))))

Parser_or(p) ==
    With(emit_jump(AtPrevious(p), "OpJumpIfFalse"), LAMBDA c1 :
    With(LastAddress(c1), LAMBDA else_jump :
    With(emit_jump(c1, "OpJump"), LAMBDA c2 :
    With(LastAddress(c2), LAMBDA end_jump :
    Then(Parser_parse_precedence([p EXCEPT !.c = emit_pop(patch_jump(c2, else_jump))],
                                 Precedence.Or),
         LAMBDA p1 : ParseOk([p1 EXCEPT !.c = patch_jump(@, end_jump)]))))))

exec_parse_function(p, function_type, can_assign) ==
    CASE function_type = "Binary" -> Parser_binary(p)
      [] function_type = "Unary" -> Parser_unary(p)
      [] function_type = "Grouping" -> Parser_grouping(p)
      [] function_type = "Number" -> Parser_number(p)
      [] function_type = "Literal" -> Parser_literal(p)
      [] function_type = "String" -> Parser_string(p)
      [] function_type = "Variable" -> Parser_variable(p, can_assign)
      [] function_type = "And" -> Parser_and(p)
      [] function_type = "Or" -> Parser_or(p)

(* The while loop of parse_precedence, over the infix operators that bind  *)
(* at least as tightly as `precedence`.                                    *)
RECURSIVE InfixLoop(_, _, _)
InfixLoop(p, precedence, can_assign) ==
    IF ~(precedence <= get_rule(p.current.token_type).precedence) THEN ParseOk(p)
    ELSE Then(Parser_advance(p), LAMBDA p1 :
         With(get_rule(p1.previous.token_type).infix, LAMBDA infix :
         IF infix = "None" THEN ParseOk(p1)
         ELSE Then(exec_parse_function(p1, infix, can_assign), LAMBDA p2 :
                   InfixLoop(p2, precedence, can_assign))))

Parser_parse_precedence(p, precedence) ==
    Then(Parser_advance(p), LAMBDA p1 :
    With(precedence <= Precedence.Assignment, LAMBDA can_assign :
    With(get_rule(p1.previous.token_type).prefix, LAMBDA prefix :
    IF prefix = "None"
    THEN ParseErr(report_error(p1, p1.previous, "Expect expression"))
    ELSE Then(exec_parse_function(p1, prefix, can_assign), LAMBDA p2 :
         Then(InfixLoop(p2, precedence, can_assign), LAMBDA p3 :
         IF can_assign /\ match_token_type(p3, "Equal")
         THEN Then(Parser_advance(p3), LAMBDA p4 :
                   ParseErr(report_error(p4, p4.previous, "Invalid assignment target.")))
         ELSE ParseOk(p3))))))

(* result?; rest, for a result that answers a value.                       *)
ThenValue(result, rest(_, _)) ==
    CHOOSE r \in {IF v.ok THEN rest(v.p, v.value) ELSE v : v \in {result}} : TRUE

Parser_parse_variable(p) ==
    IF ~match_token_type(p, "Identifier")
    THEN ParseErr(report_error(p, p.current, "Expect variable name."))
    ELSE Then(Parser_advance(p), LAMBDA p1 :
         With(declare_variable(p1.c, p1.previous.lexeme), LAMBDA declared :
         IF ~declared.ok THEN ParseErr(report_error(p1, p1.previous, AlreadyDeclared))
         ELSE IF is_local(declared.c) THEN ParseValue([p1 EXCEPT !.c = declared.c], 0)
         ELSE With(identifier_constant(declared.c, p1.previous.lexeme), LAMBDA c1 :
                   ParseValue([p1 EXCEPT !.c = c1], LastConstant(c1)))))

Parser_var_declaration(p) ==
    ThenValue(Parser_parse_variable(p), LAMBDA p1, global :
    Then(IF match_token_type(p1, "Equal")
         THEN Then(Parser_advance(p1), LAMBDA p2 : Parser_expression(p2))
         ELSE ParseOk(EmitAt(p1, Op("OpNil", 0), p1.previous.line)),
         LAMBDA p3 :
         IF ~match_token_type(p3, "Semicolon")
         THEN ParseErr(report_error(p3, p3.current, "Expect ';' after expression."))
         ELSE Then(Parser_advance(p3), LAMBDA p4 :
              IF is_local(p4.c)
              THEN ParseOk([p4 EXCEPT !.c = define_local_variable(@)])
              ELSE ParseOk([p4 EXCEPT
                                !.c = define_global_variable(AtPrevious(p4), global)]))))

Parser_expression_statement(p) ==
    Then(Parser_expression(p), LAMBDA p1 :
         IF ~match_token_type(p1, "Semicolon")
         THEN ParseErr(report_error(p1, p1.current, "Expect ';' after expression."))
         ELSE Then(Parser_advance(p1), LAMBDA p2 :
                   ParseOk([p2 EXCEPT !.c = emit_pop(AtPrevious(p2))])))

Parser_print_statement(p) ==
    Then(Parser_expression(p), LAMBDA p1 :
         IF ~match_token_type(p1, "Semicolon")
         THEN ParseErr(report_error(p1, p1.current, "Expect ';' after value."))
         ELSE Then(Parser_advance(p1), LAMBDA p2 :
                   ParseOk(EmitAt(p2, Op("OpPrint", 0), p2.previous.line))))

Parser_condition(p) ==
    IF ~match_token_type(p, "LeftParen")
    THEN ParseErr(report_error(p, p.current, "Expect '(' before condition."))
    ELSE Then(Parser_advance(p), LAMBDA p1 :
         Then(Parser_expression(p1), LAMBDA p2 :
              IF ~match_token_type(p2, "RightParen")
              THEN ParseErr(report_error(p2, p2.current, "Expect ')' after condition."))
              ELSE Parser_advance(p2)))

RECURSIVE Parser_statement(_)
RECURSIVE Parser_declaration(_)

Parser_for_loop_init(p) ==
    CASE p.current.token_type = "Semicolon" -> Parser_advance(p)
      [] p.current.token_type = "Var" ->
            Then(Parser_advance(p), LAMBDA p1 : Parser_var_declaration(p1))
      [] OTHER -> Parser_expression_statement(p)

(* The value is the address of the exit jump, or -1 for None.              *)
Parser_for_loop_condition(p) ==
    IF match_token_type(p, "Semicolon")
    THEN Then(Parser_advance(p), LAMBDA p1 : ParseValue(p1, -1))
    ELSE Then(Parser_expression(p), LAMBDA p1 :
         IF ~match_token_type(p1, "Semicolon")
         THEN ParseErr(report_error(p1, p1.current, "Expect ';' after condition."))
         ELSE Then(Parser_advance(p1), LAMBDA p2 :
              With(emit_jump(AtPrevious(p2), "OpJumpIfFalse"), LAMBDA c1 :
                   ParseValue([p2 EXCEPT !.c = emit_pop(c1)], LastAddress(c1)))))

Parser_for_loop_increment(p, loop_start) ==
    IF match_token_type(p, "RightParen")
    THEN Then(Parser_advance(p), LAMBDA p1 : ParseValue(p1, loop_start))
    ELSE With(emit_jump(AtPrevious(p), "OpJump"), LAMBDA c1 :
         With(LastAddress(c1), LAMBDA body_jump :
         With(Len(c1.function.chunk.code) - 1, LAMBDA increment_start :
         Then(Parser_expression([p EXCEPT !.c = c1]), LAMBDA p1 :
         With([p1 EXCEPT !.c = emit_pop(AtPrevious(p1))], LAMBDA p2 :
         IF ~match_token_type(p2, "RightParen")
         THEN ParseErr(report_error(p2, p2.current, "Expect ')' after condition."))
         ELSE Then(Parser_advance(p2), LAMBDA p3 :
              ParseValue([p3 EXCEPT !.c = patch_jump(emit_jump_back(AtPrevious(p3),
                                                                    loop_start),
                                                     body_jump)],
                         increment_start)))))))

Parser_for_statement(p0) ==
    With([p0 EXCEPT !.c = begin_scope(@)], LAMBDA p :
    IF ~match_token_type(p, "LeftParen")
    THEN ParseErr(report_error(p, p.current, "Expect '(' after if."))
    ELSE Then(Parser_advance(p), LAMBDA p1 :
         Then(Parser_for_loop_init(p1), LAMBDA p2 :
         With(Len(p2.c.function.chunk.code) - 1, LAMBDA loop_start :
         ThenValue(Parser_for_loop_condition([p2 EXCEPT !.c = Anchored(@)]),
                   LAMBDA p3, loop_exit_jump :
         ThenValue(Parser_for_loop_increment(p3, loop_start), LAMBDA p4, jump_after_body :
         Then(Parser_statement(p4), LAMBDA p5 :
         With(emit_jump_back(AtPrevious(p5), jump_after_body), LAMBDA c1 :
         With(IF loop_exit_jump # -1
              THEN emit_pop(patch_jump(c1, loop_exit_jump)) ELSE c1, LAMBDA c2 :
              ParseOk([p5 EXCEPT !.c = end_scope(c2)]))))))))))

Parser_while_statement(p) ==
    With(Len(p.c.function.chunk.code), LAMBDA code_size :
    With(code_size - 1, LAMBDA loop_start :
    Then(Parser_condition([p EXCEPT !.c = Anchored(@)]), LAMBDA p1 :
    With(emit_jump(AtPrevious(p1), "OpJumpIfFalse"), LAMBDA c1 :
    With(LastAddress(c1), LAMBDA exit_jump :
    Then(Parser_statement([p1 EXCEPT !.c = emit_pop(c1)]), LAMBDA p2 :
         ParseOk([p2 EXCEPT !.c = emit_pop(patch_jump(emit_jump_back(AtPrevious(p2),
                                                                    loop_start),
                                                     exit_jump))])))))))

Parser_if_statement(p) ==
    Then(Parser_condition(p), LAMBDA p1 :
    With(emit_jump(AtPrevious(p1), "OpJumpIfFalse"), LAMBDA c1 :
    With(LastAddress(c1), LAMBDA then_jump :
    Then(Parser_statement([p1 EXCEPT !.c = emit_pop(c1)]), LAMBDA p2 :
    With(emit_jump(AtPrevious(p2), "OpJump"), LAMBDA c2 :
    With(LastAddress(c2), LAMBDA else_jump :
    With([p2 EXCEPT !.c = emit_pop(patch_jump(c2, then_jump))], LAMBDA p3 :
    Then(IF match_token_type(p3, "Else")
         THEN Then(Parser_advance(p3), LAMBDA p4 : Parser_statement(p4))
         ELSE ParseOk(p3),
         LAMBDA p5 : ParseOk([p5 EXCEPT !.c = patch_jump(@, else_jump)])))))))))

(* The while loop of block(), over the declarations up to the `}`.         *)
RECURSIVE BlockLoop(_)
BlockLoop(p) ==
    IF match_token_type(p, "RightBrace") \/ match_token_type(p, "EOF") THEN ParseOk(p)
    ELSE Then(Parser_declaration(p), LAMBDA p1 : BlockLoop(p1))

Parser_block(p) ==
    Then(BlockLoop(p), LAMBDA p1 :
         IF ~match_token_type(p1, "RightBrace")
         THEN ParseErr(report_error(p1, p1.current, "Expect '}' after block."))
         ELSE Parser_advance(p1))

Parser_statement(p) ==
    CASE p.current.token_type = "Print" ->
            Then(Parser_advance(p), LAMBDA p1 : Parser_print_statement(p1))
      [] p.current.token_type = "If" ->
            Then(Parser_advance(p), LAMBDA p1 : Parser_if_statement(p1))
      [] p.current.token_type = "While" ->
            Then(Parser_advance(p), LAMBDA p1 : Parser_while_statement(p1))
      [] p.current.token_type = "For" ->
            Then(Parser_advance(p), LAMBDA p1 : Parser_for_statement(p1))
      [] p.current.token_type = "LeftBrace" ->
            Then(Parser_advance(p), LAMBDA p1 :
            Then(Parser_block([p1 EXCEPT !.c = begin_scope(@)]), LAMBDA p2 :
                 ParseOk([p2 EXCEPT !.c = end_scope(AtPrevious(p2))])))
      [] OTHER -> Parser_expression_statement(p)

Parser_declaration(p) ==
    IF match_token_type(p, "Var")
    THEN Then(Parser_advance(p), LAMBDA p1 : Parser_var_declaration(p1))
    ELSE Parser_statement(p)

----------------------------------------------------------------------------
(* The parser on texts: programs of up to MaxParseStmts statements, each   *)
(* an assignment to something that is no variable, a statement that        *)
(* compiles, or a statement with an error, all on one line.                *)

(* Expressions that are no bare identifier: a+b, 1, (a), -a, !a, a and b, a=b+c *)
NonTargets ==
    {<<"a", "+", "b">>,
     <<"1">>,
     <<"(", "a", ")">>,
     <<"-", "a">>,
     <<"!", "a">>,
     <<"a", " ", "a", "n", "d", " ", "b">>,
     <<"a", "=", "b", "+", "c">>}

(* What is assigned: c, 2 *)
AssignedValues ==
    {<<"c">>,
     <<"2">>}

(* Statements that compile: a=b=c;  print 1;  var a=1;  (a=1);  {var a;}  if(a)b=1;else c=1;  while(a)a=1;  for(;a;)b=1; *)
ValidStatements ==
    {<<"a", "=", "b", "=", "c", ";">>,
     <<"p", "r", "i", "n", "t", " ", "1", ";">>,
     <<"v", "a", "r", " ", "a", "=", "1", ";">>,
     <<"(", "a", "=", "1", ")", ";">>,
     <<"{", "v", "a", "r", " ", "a", ";", "}">>,
     <<"i", "f", "(", "a", ")", "b", "=", "1", ";", "e", "l", "s", "e", " ", "c", "=", "1", ";">>,
     <<"w", "h", "i", "l", "e", "(", "a", ")", "a", "=", "1", ";">>,
     <<"f", "o", "r", "(", ";", "a", ";", ")", "b", "=", "1", ";">>}

(* Statements with a scanner error, an unexpected token or a semantic violation: @  print @;  print 1  var 1;  1+;  {var a;var a;}  {var a=a;}  a=@;  1=@; *)
ErrorStatements ==
    {<<"@">>,
     <<"p", "r", "i", "n", "t", " ", "@", ";">>,
     <<"p", "r", "i", "n", "t", " ", "1">>,
     <<"v", "a", "r", " ", "1", ";">>,
     <<"1", "+", ";">>,
     <<"{", "v", "a", "r", " ", "a", ";", "v", "a", "r", " ", "a", ";", "}">>,
     <<"{", "v", "a", "r", " ", "a", "=", "a", ";", "}">>,
     <<"a", "=", "@", ";">>,
     <<"1", "=", "@", ";">>}

InvalidAssignments ==
    {lhs \o <<"=">> \o rhs \o <<";">> : lhs \in NonTargets, rhs \in AssignedValues}

ParseStatements == InvalidAssignments \cup ValidStatements \cup ErrorStatements

RECURSIVE ProgramsOf(_)
ProgramsOf(n) ==
    IF n = 0 THEN {<<>>}
    ELSE LET shorter == ProgramsOf(n - 1)
         IN shorter \cup {text \o s \o <<" ">> : text \in shorter, s \in ParseStatements}

InitParse ==
    /\ NewInterpreter
    /\ input = Source_new(<<>>)
    /\ tokens = <<>>
    /\ parser \in {Parser_new(Source_new(text), RootCompiler) :
                     text \in ProgramsOf(MaxParseStmts)}

(* How a step of parse() ends: in the next state of the parser, or with    *)
(* CompileError, or in a panic.                                            *)
ParseStep(result) ==
    /\ parser' = result.p
    /\ phase' = IF result.ok THEN "compile"
                ELSE IF result.panic THEN "panic" ELSE "compile_error"
    /\ err' = IF result.ok \/ result.panic THEN err ELSE Last(result.p.reported).line
    /\ UNCHANGED <<input, tokens, history, src, compiler, enclosing, vmVars>>

(* parse(): the first advance.                                             *)
ParseAdvance ==
    /\ phase = "compile"
    /\ parser.current = NoToken
    /\ ParseStep(Parser_advance(parser))

(* parse(): one turn of the loop over the declarations.                    *)
ParseDeclaration ==
    /\ phase = "compile"
    /\ parser.current # NoToken
    /\ ~match_token_type(parser, "EOF")
    /\ ParseStep(Parser_declaration(parser))

(* parse() consumes EOF and returns the function, and compile() ends it.   *)
ParseEnd ==
    /\ phase = "compile"
    /\ parser.current # NoToken
    /\ match_token_type(parser, "EOF")
    /\ LET result == Parser_advance(parser) IN
       IF ~result.ok THEN ParseStep(result)
       ELSE /\ parser' = [result.p EXCEPT !.c = end_compiler(AtPrevious(result.p))]
            /\ phase' = "compiled"
            /\ UNCHANGED <<err, input, tokens, history, src, compiler, enclosing, vmVars>>

NextParse ==
    \/ ParseAdvance
    \/ ParseDeclaration
    \/ ParseEnd

SpecParse == InitParse /\ [][NextParse]_vars

----------------------------------------------------------------------------
(* Scripts with loops at every place a loop may stand: first in the script, *)
(* after another statement, and first or later in the body of the function  *)
(* f, which the script may call.  The for loops have no initializer.        *)

AnchorLoops ==
    {WHILE(ELit("false"), PRINT(ENum(1))),
     FOR(NoStmt, ELit("false"), NoExpr, PRINT(ENum(1))),
     FOR(NoStmt, ELit("false"), EAssign("i", ENum(1)), PRINT(ENum(1))),
     BLOCK(<<WHILE(ELit("false"), PRINT(ENum(1)))>>)}

NextAnchors ==
    \/ More(MaxAnchorStmts) /\ BeginFunction("f", <<>>)
    \/ More(MaxAnchorStmts) /\ EndFunction
    \/ \E s \in AnchorLoops : More(MaxAnchorStmts) /\ Declaration(s)
    \/ More(MaxAnchorStmts) /\ PrintStatement(ECall(EVar("f"), <<>>))
    \/ EndOfSource
    \/ Step

SpecAnchors == Init /\ [][NextAnchors]_vars

----------------------------------------------------------------------------
(* Expression statements 1 op1 2 op2 3; for every pair of binary operators *)
(* the scanner knows, compiled from their text.                             *)
BinaryOperatorTexts ==
    {<<"+">>, <<"-">>, <<"*">>, <<"/">>, <<"=", "=">>, <<"!", "=">>,
     <<"<">>, <<"<", "=">>, <<">">>, <<">", "=">>}

Operation(op1, op2) == <<"1">> \o op1 \o <<"2">> \o op2 \o <<"3", ";">>

Operations == {Operation(op1, op2) : op1, op2 \in BinaryOperatorTexts}

RECURSIVE OperationsOf(_)
OperationsOf(n) ==
    IF n = 0 THEN {<<>>}
    ELSE LET shorter == OperationsOf(n - 1)
         IN shorter \cup {text \o s \o <<" ">> : text \in shorter, s \in Operations}

InitPrecedence ==
    /\ NewInterpreter
    /\ input = Source_new(<<>>)
    /\ tokens = <<>>
    /\ parser \in {Parser_new(Source_new(text), RootCompiler) :
                     text \in OperationsOf(MaxPrecStmts)}

SpecPrecedence == InitPrecedence /\ [][NextParse]_vars

----------------------------------------------------------------------------
(* Scripts that declare a and b, as globals or as locals of a block, with  *)
(* different values, and assign to both in one expression, a = b = 3, with *)
(* either defined or not.                                                  *)
ChainedAssignment == EAssign("a", EAssign("b", ENum(3)))

NextAssign ==
    \/ More(MaxAssignStmts) /\ VarDeclaration("a", ENum(1))
    \/ More(MaxAssignStmts) /\ VarDeclaration("b", ENum(2))
    \/ More(MaxAssignStmts) /\ ExpressionStatement(ChainedAssignment)
    \/ More(MaxAssignStmts) /\ PrintStatement(EVar("a"))
    \/ More(MaxAssignStmts) /\ BeginBlock
    \/ More(MaxAssignStmts) /\ EndBlock
    \/ EndOfSource
    \/ Step

SpecAssign == Init /\ [][NextAssign]_vars

----------------------------------------------------------------------------
(* Scripts of every kind of statement: declarations, prints, expression    *)
(* statements, blocks opened and closed, and whole blocks, ifs and loops.  *)
DisciplineStatements ==
    {BLOCK(<<VAR("a", ENum(1))>>),
     IF_(ELit("true"), PRINT(ENum(1)), PRINT(ENum(2))),
     WHILE(ELit("false"), PRINT(ENum(1))),
     FOR(NoStmt, ELit("false"), NoExpr, PRINT(ENum(1)))}

NextDiscipline ==
    \/ More(MaxDisciplineStmts) /\ VarDeclaration("a", ENum(1))
    \/ More(MaxDisciplineStmts) /\ PrintStatement(ENum(1))
    \/ More(MaxDisciplineStmts) /\ ExpressionStatement(ENum(1))
    \/ More(MaxDisciplineStmts) /\ BeginBlock
    \/ More(MaxDisciplineStmts) /\ EndBlock
    \/ \E s \in DisciplineStatements : More(MaxDisciplineStmts) /\ Declaration(s)
    \/ EndOfSource
    \/ Step

SpecDiscipline == Init /\ [][NextDiscipline]_vars

----------------------------------------------------------------------------
(* Scripts that print -x and l op r for operands of every mix of number,   *)
(* string, nil and boolean, after defining the global a or not.            *)
NegateOperands == {ENum(1), EStr("a"), ELit("nil"), ELit("true")}
OperandPairs ==
    {<<ENum(1), ENum(1)>>, <<EStr("a"), EStr("b")>>, <<ENum(1), EStr("a")>>,
     <<EStr("a"), ENum(1)>>, <<ELit("nil"), ENum(1)>>, <<ENum(1), ELit("true")>>,
     <<ELit("nil"), ELit("nil")>>}
TypeExprs ==
    {EUnary("-", e) : e \in NegateOperands}
        \cup {EBinary(op, p[1], p[2]) : op \in BinaryTokens, p \in OperandPairs}

NextTypes ==
    \/ More(MaxTypeStmts) /\ VarDeclaration("a", ENum(1))
    \/ \E e \in TypeExprs : More(MaxTypeStmts) /\ PrintStatement(e)
    \/ EndOfSource
    \/ Step

SpecTypes == Init /\ [][NextTypes]_vars

----------------------------------------------------------------------------
(* What the properties below speak about.                                  *)

Code == compiler.function.chunk.code

(* The instructions the statement just parsed added to the chunk.          *)
NewCode == SubSeq(Code', Len(Code) + 1, Len(Code'))

ParsedOne == phase = "compile" /\ Len(src') = Len(src) + 1

Fetching ==
    /\ phase = "run"
    /\ frames # <<>>
    /\ Last(frames).ip + 1 <= Len(Last(frames).function.chunk.code)

(* The instruction the next Step executes, when Fetching.                  *)
Fetched == Last(frames).function.chunk.code[Last(frames).ip + 1]

(* The instruction the last Step executed.                                 *)
Executed == Last(frames).function.chunk.code[Last(frames).ip]

Ended == phase \notin {"compile", "run"}

(* Lexical scoping of the source, by the language's rules: the locals      *)
(* declared in blocks that are still open after the first k statements.    *)
RECURSIVE ScopeAfter(_, _)
ScopeAfter(s, k) ==
    IF k = 0 THEN [depth |-> 0, live |-> <<>>]
    ELSE LET prev == ScopeAfter(s, k - 1)
             st == s[k]
         IN CASE st.kind = "{" -> [prev EXCEPT !.depth = @ + 1]
              [] st.kind = "}" ->
                    [depth |-> prev.depth - 1,
                     live |-> SelectSeq(prev.live, LAMBDA l : l.depth < prev.depth)]
              [] st.kind = "var" /\ prev.depth > 0 ->
                    [prev EXCEPT !.live = Append(@, [name |-> st.name, depth |-> prev.depth])]
              [] OTHER -> prev

LiveLocals(s) == ScopeAfter(s, Len(s)).live
LiveNames(s) == {LiveLocals(s)[i].name : i \in 1 .. Len(LiveLocals(s))}
LiveNamesAt(s, depth) ==
    {LiveLocals(s)[i].name : i \in {j \in 1 .. Len(LiveLocals(s)) : LiveLocals(s)[j].depth = depth}}

RECURSIVE NamesIn(_)
NamesIn(e) ==
    CASE e.kind = "var" -> {e.name}
      [] e.kind = "assign" -> {e.name} \cup NamesIn(e.e)
      [] e.kind \in {"and", "or", "binary"} -> NamesIn(e.l) \cup NamesIn(e.r)
      [] e.kind = "unary" -> NamesIn(e.e)
      [] e.kind = "call" ->
            NamesIn(e.callee) \cup UNION {NamesIn(e.args[i]) : i \in 1 .. Len(e.args)}
      [] OTHER -> {}

LocalOps == {"OpGetLocal", "OpSetLocal"}
GlobalOps == {"OpGetGlobal", "OpSetGlobal"}

----------------------------------------------------------------------------
(* C1: a name used where no local of that name is in scope any more (the   *)
(* block that declared it has ended) compiles to GetGlobal/SetGlobal,      *)
(* never to GetLocal/SetLocal; and the script                              *)
(*     var a; { var a = 1; print a; } print a;                             *)
(* prints 1 and then nil.                                                  *)

Scenario3 ==
    <<VAR("a", NoExpr), LBRACE, VAR("a", ENum(1)), PRINT(EVar("a")), RBRACE,
      PRINT(EVar("a"))>>

C1_UseOfGlobal ==
    /\ ParsedOne
    /\ phase' = "compile"
    /\ Last(src').kind \in {"print", "expr"}
    /\ NamesIn(Last(src').e) # {}
    /\ NamesIn(Last(src').e) \cap LiveNames(src) = {}

C2_SlotInFrame ==
    Fetching /\ Fetched.op \in LocalOps =>
        /\ 0 <= Fetched.arg
        /\ Fetched.arg <= Len(stack) - Last(frames).frame_pointer

(* C3: `var x = e;` followed by a read of x gives the value of e, at       *)
(* global scope and at any local depth, also after earlier blocks have     *)
(* closed.  Taken on scripts that end in `var x = 1; print x;` (and the    *)
(* braces closing the open blocks) after declarations and blocks only, so  *)
(* that nothing before the read can fail: such a script runs to the end    *)
(* and the last line it prints is 1.                                       *)

RECURSIVE StripBraces(_)
StripBraces(s) ==
    IF s # <<>> /\ Last(s).kind = "}" THEN StripBraces(Front(s)) ELSE s

C3_DeclareThenRead(s) ==
    LET t == StripBraces(s) IN
    /\ Len(t) >= 2
    /\ ScopeAfter(s, Len(s)).depth = 0
    /\ \E x \in Names :
         /\ t[Len(t) - 1] = VAR(x, ENum(1))
         /\ t[Len(t)] = PRINT(EVar(x))
         /\ x \notin LiveNamesAt(SubSeq(t, 1, Len(t) - 2),
                                 ScopeAfter(t, Len(t) - 2).depth)
    /\ \A k \in 1 .. Len(t) - 2 :
         /\ t[k].kind \in {"var", "{", "}"}
         /\ NamesIn(t[k].e) = {}
         /\ t[k].kind = "var" =>
              t[k].name \notin LiveNamesAt(SubSeq(t, 1, k - 1), ScopeAfter(t, k - 1).depth)

C3_ReadGivesInitializer ==
    C3_DeclareThenRead(src) /\ Ended =>
        /\ phase = "done"
        /\ output # <<>>
        /\ Last(output) = "1"

(* C6: reading a local in its own initializer is the compile error         *)
(* "Can't read local variable in own initializer."; the script             *)
(* `var x = x;` at global scope compiles.                                  *)

C6_SelfInitializer ==
    /\ ParsedOne
    /\ Last(src').kind = "var"
    /\ Last(src').e = EVar(Last(src').name)
    /\ Last(src').name \notin LiveNamesAt(src, ScopeAfter(src, Len(src)).depth)

C6_OwnInitializerError ==
    [][C6_SelfInitializer =>
          IF ScopeAfter(src, Len(src)).depth > 0
          THEN /\ phase' = "compile_error"
               /\ err' = "Can't read local variable in own initializer."
          ELSE src = <<>> => phase' = "compile"]_vars

(* C4: SetGlobal(k) never inserts a binding.  Whatever it does, the keys   *)
(* of globals stay as they were; when the name is absent the instruction   *)
(* ends in a runtime error and the name is still absent.                   *)

GlobalName == Last(frames).function.chunk.constants[Fetched.arg + 1].s

C4_SetGlobalNeverInserts ==
    [][Fetching /\ Fetched.op = "OpSetGlobal" =>
          /\ DOMAIN globals' = DOMAIN globals
          /\ GlobalName \notin DOMAIN globals =>
                /\ phase' = "runtime_error"
                /\ GlobalName \notin DOMAIN globals']_vars

C4_Witness ==
    /\ phase = "runtime_error"
    /\ Executed.op = "OpSetGlobal"
    /\ Last(frames).function.chunk.constants[Executed.arg + 1].s \notin DOMAIN globals
    /\ Len(stack) >= 2

(* C5: GetGlobal(k) of an absent name is the runtime error                 *)
(* "Undefined variable '<name>'." and pushes nothing; of a present name it *)
(* pushes the bound value and leaves globals alone.                        *)

C5_GetGlobal ==
    [][Fetching /\ Fetched.op = "OpGetGlobal" =>
          IF GlobalName \in DOMAIN globals
          THEN /\ phase' = "run"
               /\ stack' = Append(stack, globals[GlobalName])
               /\ globals' = globals
          ELSE /\ phase' = "runtime_error"
               /\ err' = "Undefined variable '" \o GlobalName \o "'."
               /\ stack' = stack]_vars

(* C7: short circuit.  In the code of `a and b` no instruction of b runs   *)
(* when a is falsy, in the code of `a or b` none runs when a is truthy,    *)
(* and then the value of a is the one value the expression leaves.         *)
(* Taken on the last statement of a script, `print a and b;` or            *)
(* `print a or b;`, whose code ends right before Print, Nil, Return:       *)
(*    and:  a  JumpIfFalse  Pop  b  Print                                  *)
(*    or:   a  JumpIfFalse  Jump  Pop  b  Print                            *)
(* The only way into b is through the Pop before it, and the Pop is        *)
(* reached only from the JumpIfFalse, on a truthy a (and) or a falsy a     *)
(* (or); otherwise control goes straight to the Print with the stack as a  *)
(* left it.                                                                *)

RECURSIVE CodeLen(_)
CodeLen(e) ==
    CASE e.kind = "assign" -> CodeLen(e.e) + 1
      [] e.kind = "and" -> CodeLen(e.l) + 2 + CodeLen(e.r)
      [] e.kind = "or" -> CodeLen(e.l) + 3 + CodeLen(e.r)
      [] e.kind = "binary" -> CodeLen(e.l) + CodeLen(e.r) + 1
      [] e.kind = "unary" -> CodeLen(e.e) + 1
      [] OTHER -> 1

LogicLast ==
    /\ src # <<>>
    /\ Last(src).kind = "print"
    /\ Last(src).e.kind \in {"and", "or"}

ip == Last(frames).ip
PrintAt == Len(Code) - 3
RightAt == PrintAt - CodeLen(Last(src).e.r)
PopAt == RightAt - 1
JumpIfFalseAt == IF Last(src).e.kind = "and" THEN RightAt - 2 ELSE RightAt - 3
InRight(i) == RightAt <= i /\ i < PrintAt
(* a is falsy under `and`, truthy under `or`.                              *)
Decided(value) ==
    IF Last(src).e.kind = "and" THEN is_falsey(value) ELSE ~is_falsey(value)

C7_ShortCircuit ==
    [][Fetching /\ LogicLast /\ phase' = "run" =>
          LET ip1 == Last(frames').ip IN
          /\ Len(frames') = 1
          /\ ip = JumpIfFalseAt /\ Decided(Last(stack)) =>
                /\ stack' = stack
                /\ Len(stack') = 2
                /\ ip1 = IF Last(src).e.kind = "and" THEN PrintAt ELSE ip + 1
          /\ ip = JumpIfFalseAt + 1 /\ Last(src).e.kind = "or" =>
                /\ stack' = stack
                /\ Len(stack') = 2
                /\ ip1 = PrintAt
          /\ ip1 = PopAt => ip = JumpIfFalseAt /\ ~Decided(Last(stack))
          /\ InRight(ip1) /\ ~InRight(ip) => ip = PopAt]_vars

C7_Witness ==
    /\ phase = "run"
    /\ LogicLast
    /\ Last(src).e = EAnd(ELit("false"), EAssign("a", ENum(3)))
    /\ ip = PrintAt
    /\ stack = <<RootCompiler.function.chunk.constants[1], Bool(FALSE)>>

----------------------------------------------------------------------------
(* Calls and returns, over SpecCalls.                                      *)

(* The operand of the Call about to execute, and the value it calls:       *)
(* stack[len - 1 - argc], counting from 0.                                 *)
Calling == Fetching /\ Fetched.op = "OpCall" /\ Len(stack) >= 1 + Fetched.arg
Argc == Fetched.arg
Callee == stack[Len(stack) - Argc]

(* The frame stack but for the ip of the running frame, which the fetch    *)
(* of every instruction advances before the instruction runs.              *)
Fetch(fs) == [fs EXCEPT ![Len(fs)].ip = @ + 1]

(* C8: a successful Call(argc) on a user function of arity argc pushes     *)
(* exactly one frame, leaves the operand stack as it is, and the new frame *)
(* has ip = 0 and frame_base = stack depth - 1 - argc: its slot 0 is the   *)
(* callee and its slots 1..argc are the arguments, the top of the stack.   *)
C8_CallPushesFrame ==
    [][Calling /\ Callee.t = "fn" /\ Callee.arity = Argc /\ phase' = "run" =>
          LET frame == Last(frames')
              frame_base == frame.frame_pointer IN
          /\ Len(frames') = Len(frames) + 1
          /\ Front(frames') = Fetch(frames)
          /\ stack' = stack
          /\ frame.ip = 0
          /\ frame.function = Callee
          /\ frame_base = Len(stack) - 1 - Argc
          /\ stack'[frame_base + 1] = Callee
          /\ frame_base + 1 + Argc = Len(stack')]_vars

C8_Witness ==
    /\ phase = "run"
    /\ Len(frames) = 2
    /\ Last(frames).ip = 0
    /\ Last(frames).function.arity = 1
    /\ Last(frames).frame_pointer = 1
    /\ stack = <<RootCompiler.function.chunk.constants[1], Last(frames).function,
                 Number(2)>>

(* C9: a Return executed while more than one frame is active pops exactly  *)
(* one frame, cuts the operand stack down to the frame_base of the         *)
(* returning frame and pushes the popped result, one value: the callee and *)
(* its arguments are replaced by the result.                               *)
C9_ReturnPopsFrame ==
    [][Fetching /\ Fetched.op = "OpReturn" /\ Len(frames) > 1 =>
          LET frame_base == Last(frames).frame_pointer IN
          /\ phase' = "run"
          /\ Len(frames') = Len(frames) - 1
          /\ frames' = Front(frames)
          /\ stack' = Append(SubSeq(stack, 1, frame_base), Last(stack))
          /\ Len(stack') = frame_base + 1]_vars

C9_Witness ==
    /\ phase = "run"
    /\ Len(frames) = 1
    /\ ip > 0
    /\ Executed = Op("OpCall", 1)
    /\ stack = <<RootCompiler.function.chunk.constants[1], Nil>>

(* C10: Call(argc) pushes a frame only when the callee is a user function  *)
(* whose arity is argc; an arity mismatch is the runtime error "Expected N *)
(* arguments but got M.", a callee that is neither a function nor a native *)
(* is the runtime error "Can only call functions and classes.", and in     *)
(* both cases no frame is pushed or popped and the operand stack is as it  *)
(* was.                                                                    *)
Count(n) == CASE n = 0 -> "0" [] n = 1 -> "1" [] n = 2 -> "2"

Expected(arity, arg_count) ==
    "Expected " \o Count(arity) \o " arguments but got " \o Count(arg_count) \o "."

C10_CallChecksCallee ==
    [][/\ phase = "run" /\ Len(frames') > Len(frames) =>
             Calling /\ Callee.t = "fn" /\ Callee.arity = Argc
       /\ Calling /\ Callee.t = "fn" /\ Callee.arity # Argc =>
             /\ phase' = "runtime_error"
             /\ err' = Expected(Callee.arity, Argc)
             /\ stack' = stack
             /\ frames' = Fetch(frames)
       /\ Calling /\ Callee.t \notin {"fn", "native"} =>
             /\ phase' = "runtime_error"
             /\ err' = "Can only call functions and classes."
             /\ stack' = stack
             /\ frames' = Fetch(frames)]_vars

C10_Witness ==
    /\ phase = "runtime_error"
    /\ err = "Expected 1 arguments but got 0."
    /\ Executed = Op("OpCall", 0)
    /\ Last(stack).t = "fn"
    /\ Last(stack).arity = 1
    /\ Len(frames) = 2

C10_NotCallable ==
    /\ phase = "runtime_error"
    /\ err = "Can only call functions and classes."
    /\ Executed = Op("OpCall", 1)
    /\ stack = <<RootCompiler.function.chunk.constants[1], Number(1), Number(2)>>

----------------------------------------------------------------------------
(* The frame stack and the REPL, over SpecCalls and SpecRepl.              *)

(* A Call on a user function of the right arity.                           *)
CallingFunction == Calling /\ Callee.t = "fn" /\ Callee.arity = Argc

(* C11: the frame stack never holds more than FRAMES_MAX = 64 frames; a    *)
(* Call on a user function when 64 frames are active is the runtime error  *)
(* "Stack overflow." and pushes nothing.                                   *)
C11_FramesBounded ==
    /\ [](Len(frames) <= FRAMES_MAX)
    /\ [][CallingFunction /\ Len(frames) = FRAMES_MAX =>
             /\ phase' = "runtime_error"
             /\ err' = "Stack overflow."
             /\ frames' = Fetch(frames)
             /\ stack' = stack]_vars

(* C13: an interpret() on a reused VM does not depend on the control state *)
(* earlier calls left, whatever they were and however they ended: it runs  *)
(* the newly compiled script from its frame alone, and it returns when the *)
(* Return of that script's top level executes.                             *)
Script == compiler.function

C13_InterpretIndependent ==
    /\ [][phase = "compile" /\ phase' = "run" =>
             frames' = <<CallFrame(Script', 0)>>]_vars
    /\ [][/\ Fetching /\ Fetched.op = "OpReturn"
          /\ Len(history) > 0
          /\ Last(frames) = [CallFrame(Script, 0) EXCEPT !.ip = Len(Script.chunk.code) - 1]
          => phase' = "done"]_vars

(* C14: when the compilation of a source fails, interpret() returns the    *)
(* compile error without pushing a frame or executing an instruction: the  *)
(* operand stack, the frame stack and the globals are what they were       *)
(* before the call, and the only chunk ever run is that of a script        *)
(* compiled to its end.                                                    *)
C14_CompileErrorLeavesVM ==
    /\ [][phase = "compile" /\ phase' # "run" =>
             phase' \in {"compile", "compile_error"} /\ UNCHANGED vmVars]_vars
    /\ [][phase = "compile_error" => phase' = "compile" /\ UNCHANGED vmVars]_vars
    /\ [][phase = "compile" /\ phase' = "run" =>
             /\ compiler.env.scope_depth = 0 /\ enclosing = <<>>
             /\ Script' = end_compiler(compiler).function
             /\ frames' = Append(frames, CallFrame(Script', 0))
             /\ UNCHANGED <<stack, globals, output>>]_vars

(* A compile error on a VM that an earlier line left with values on its    *)
(* stack and a frame.                                                      *)
C14_Witness ==
    /\ phase = "compile_error"
    /\ err = AlreadyDeclared
    /\ Len(history) = 1
    /\ Len(stack) = 1
    /\ Len(frames) = 1

(* C12: the operand stack has bounded capacity: in every reachable state   *)
(* its depth is at most STACK_MAX = 256 slots for each of FRAMES_MAX = 64  *)
(* frames.                                                                 *)
C12_StackBounded == Len(stack) <= STACK_MAX * FRAMES_MAX

(* The VM is about to execute an OpEqual on two operands.                  *)
Comparing == Fetching /\ Fetched.op = "OpEqual" /\ Len(stack) >= 2

(* C15: equality is reflexive: comparing a value with itself, be it nil, a *)
(* Boolean, a number, a string, a function or a native function, gives     *)
(* true, so `x == x` evaluates to true.                                    *)
C15_EqualityReflexive ==
    [][Comparing /\ Last(stack) = Last(Front(stack)) =>
           stack' = Append(Front(Front(stack)), Bool(TRUE))]_vars

(* The values the language takes for false.                                *)
Falsy(v) == v = Nil \/ v = Bool(FALSE)

(* The frames after a jump of `offset` forward by the instruction fetched. *)
Jumped(fs, offset) == [fs EXCEPT ![Len(fs)].ip = @ + 1 + offset]

(* C16: is_falsey holds of nil and false only: every number, 0 included,   *)
(* every string, the empty one included, and every object is truthy.       *)
(* OpNot replaces the top of the stack by Bool(is_falsey(top)), and        *)
(* OpJumpIfFalse jumps exactly when the top is falsy and pops nothing.     *)
C16_Falsiness ==
    /\ [][Fetching /\ stack # <<>> => is_falsey(Last(stack)) = Falsy(Last(stack))]_vars
    /\ [][Fetching /\ Fetched.op = "OpNot" /\ stack # <<>> =>
             /\ stack' = Append(Front(stack), Bool(Falsy(Last(stack))))
             /\ frames' = Fetch(frames)]_vars
    /\ [][Fetching /\ Fetched.op = "OpJumpIfFalse" /\ stack # <<>> =>
             /\ stack' = stack
             /\ frames' = IF Falsy(Last(stack)) THEN Jumped(frames, Fetched.arg)
                          ELSE Fetch(frames)]_vars

(* `print !0; print "" and 1;` has printed false and 1: OpNot took 0 for   *)
(* true and OpJumpIfFalse did not jump on the empty string.                *)
C16_Witness ==
    /\ phase = "done"
    /\ src = <<PRINT(EUnary("!", ENum(0))), PRINT(EAnd(EStr(""), ENum(1)))>>
    /\ output = <<"false", "1">>

(* The loop of the script, the value i has when the condition is first    *)
(* evaluated, and what the language says the loop prints.                  *)
TheLoop == src[CHOOSE j \in Loops : TRUE]
GlobalsBefore == {j \in 1..Len(src) : src[j].kind = "var" /\ \A l \in Loops : j < l}
LastGlobal == src[CHOOSE j \in GlobalsBefore : \A k \in GlobalsBefore : k <= j]
Declared == Loops # {} /\ (TheLoop.init.kind = "var" \/ GlobalsBefore # {})
Start ==
    CASE TheLoop.init.kind = "var" -> TheLoop.init.e.n
      [] TheLoop.init.kind = "expr" -> TheLoop.init.e.e.n
      [] OTHER -> LastGlobal.e.n
HasCond == TheLoop.cond.kind # "none"
HasIncr == TheLoop.incr.kind # "none"
Endless == ~HasCond \/ (~HasIncr /\ Start < Limit)
Iterations == IF Start < Limit THEN Limit - Start ELSE 0
Nth(j) == IF HasIncr THEN Start + (j - 1) ELSE Start

(* C17: a for loop runs its initializer once, then evaluates the           *)
(* condition, leaves if it is falsy, runs the body, then the increment,    *)
(* and goes back to the condition: the j-th value printed is the start     *)
(* value after j - 1 increments, nothing is printed once the condition is  *)
(* falsy, and a loop whose condition becomes falsy ends, so                *)
(* `for (var i = 0; i < 3; i = i + 1) print i;` prints 0, 1, 2 and ends.   *)
C17_ForLoopOrder ==
    /\ [](phase # "compile" /\ Declared =>
            /\ phase \in {"run", "done"}
            /\ \A j \in 1..Len(output) : output[j] = NumToString(Nth(j))
            /\ ~Endless => Len(output) <= Iterations
            /\ phase = "done" => ~Endless /\ Len(output) = Iterations)
    /\ (phase = "run" /\ Declared /\ ~Endless) ~> (phase = "done")

(* `for (var i = 0; i < 3; i = i + 1) print i;`, with Limit for 3, has     *)
(* printed 0, 1, 2 and ended.                                              *)
C17_Witness ==
    /\ phase = "done"
    /\ src = <<FOR(VAR("i", ENum(0)), EBinary("<", EVar("i"), ENum(Limit)),
                   EAssign("i", EBinary("+", EVar("i"), ENum(1))),
                   PRINT(EVar("i")))>>
    /\ output = [j \in 1..Limit |-> NumToString(j - 1)]
    /\ stack = <<>>

----------------------------------------------------------------------------
(* While loops, over SpecWhile.  The script is                             *)
(*    Constant  (Constant DefineGlobal)*  cond  JumpIfFalse  Pop  body     *)
(*    JumpBack  Pop  Nil  Return                                           *)
(* with two instructions for every global declared before the loop.        *)

LoopStart == 1 + 2 * (Len(src) - 1)
ExitJumpAt == LoopStart + CodeLen(Last(src).cond)
BodyAt == ExitJumpAt + 2
JumpBackAt == Len(Last(frames).function.chunk.code) - 4
ExitPopAt == JumpBackAt + 1
ip1 == Last(frames').ip

(* C18: in the code of `while (cond) body` the JumpBack that ends the body *)
(* sets ip to the first instruction of cond, and the JumpIfFalse taken on  *)
(* a falsy cond lands on the Pop after the JumpBack: cond and body repeat  *)
(* until cond is falsy, and the value of cond is popped once on either     *)
(* path, before the body and after the loop.                               *)
C18_WhileLoop ==
    /\ [](phase = "run" /\ WhileLast =>
             /\ Len(frames) = 1
             /\ ip \in {LoopStart, BodyAt, JumpBackAt, ExitPopAt + 1} =>
                   Len(stack) = 1
             /\ ip \in {ExitJumpAt, ExitJumpAt + 1, ExitPopAt} => Len(stack) = 2)
    /\ [][Fetching /\ WhileLast /\ phase' = "run" =>
             /\ ip = JumpBackAt =>
                   Fetched.op = "OpJumpBack" /\ ip1 = LoopStart /\ stack' = stack
             /\ ip = ExitJumpAt =>
                   /\ Fetched.op = "OpJumpIfFalse"
                   /\ stack' = stack
                   /\ ip1 = IF Falsy(Last(stack)) THEN ExitPopAt ELSE ExitJumpAt + 1
             /\ ip \in {ExitJumpAt + 1, ExitPopAt} =>
                   Fetched.op = "OpPop" /\ stack' = Front(stack) /\ ip1 = ip + 1
             /\ ip1 = LoopStart => ip \in {LoopStart - 1, JumpBackAt}
             /\ ip1 = BodyAt => ip = ExitJumpAt + 1
             /\ ip1 = ExitPopAt => ip = ExitJumpAt /\ Falsy(Last(stack))]_vars

(* `var i = 0; while (i < 3) { print i; i = i + 1; }`, with Limit for 3,   *)
(* has jumped back to the condition after its last turn, with only the     *)
(* script on the stack and every value of i below Limit printed.           *)
C18_Witness ==
    /\ phase = "run"
    /\ src = <<VAR("i", ENum(0)),
               WHILE(EBinary("<", EVar("i"), ENum(Limit)),
                     BLOCK(<<PRINT(EVar("i")), Increment>>))>>
    /\ ip = LoopStart
    /\ Len(stack) = 1
    /\ output = [j \in 1..Limit |-> NumToString(j - 1)]

----------------------------------------------------------------------------
(* If statements, over SpecIf.  The script is                              *)
(*    Constant  (Constant DefineGlobal)*  cond  JumpIfFalse  Pop  then     *)
(*    Jump  Pop  else  Nil  Return                                         *)
(* where every branch is Constant Print and an absent else is empty.       *)

BranchLen == CodeLen(ENum(1)) + 1
IfStart == 1 + 2 * (Len(src) - 1)
ThenJumpAt == IfStart + CodeLen(Last(src).cond)
ThenAt == ThenJumpAt + 2
ElseJumpAt == ThenAt + BranchLen
ElsePopAt == ElseJumpAt + 1
AfterIf == Len(Last(frames).function.chunk.code) - 2
HasElse == Last(src).else_branch.kind # "none"
Truthy == Last(src).cond \notin {ELit("false"), ELit("nil")}
InThen(at) == ThenAt <= at /\ at < ElseJumpAt
InElse(at) == ElsePopAt < at /\ at < AfterIf

(* C19: of `if (cond) then else other` exactly one branch executes, then   *)
(* iff cond is truthy and other, when there is one, iff cond is falsy.     *)
(* The JumpIfFalse lands on the Pop before the else branch and the Jump on *)
(* the first instruction after it, so the value of cond is popped once on  *)
(* either path.                                                            *)
C19_IfElse ==
    /\ [](phase \in {"run", "done"} /\ IfLast =>
             /\ phase = "run" =>
                   /\ Len(frames) = 1
                   /\ AfterIf = ElsePopAt + 1 + (IF HasElse THEN BranchLen ELSE 0)
                   /\ InThen(ip) => Truthy
                   /\ InElse(ip) => ~Truthy
                   /\ ip \in {IfStart, ThenAt, ElseJumpAt, AfterIf} => Len(stack) = 1
                   /\ ip \in {ThenJumpAt, ThenJumpAt + 1, ElsePopAt} => Len(stack) = 2
             /\ phase = "done" =>
                   output = IF Truthy THEN <<"1">>
                            ELSE IF HasElse THEN <<"2">> ELSE <<>>)
    /\ [][Fetching /\ IfLast /\ phase' = "run" =>
             /\ ip = ThenJumpAt =>
                   /\ Fetched.op = "OpJumpIfFalse"
                   /\ stack' = stack
                   /\ ip1 = IF Falsy(Last(stack)) THEN ElsePopAt ELSE ThenJumpAt + 1
             /\ ip = ElseJumpAt =>
                   Fetched.op = "OpJump" /\ stack' = stack /\ ip1 = AfterIf
             /\ ip \in {ThenJumpAt + 1, ElsePopAt} =>
                   Fetched.op = "OpPop" /\ stack' = Front(stack) /\ ip1 = ip + 1
             /\ ip1 = ElsePopAt => ip = ThenJumpAt
             /\ ip1 = ThenAt => ip = ThenJumpAt + 1
             /\ ip1 = AfterIf /\ ip # AfterIf =>
                   ip = ElseJumpAt \/ (ip = AfterIf - 1 /\ ~Truthy)]_vars

(* `var a = 0; if (0) print 1; else print 2;` has jumped over the else     *)
(* branch, having printed 1 and popped the 0.                              *)
C19_Witness ==
    /\ phase = "run"
    /\ src = <<VAR("a", ENum(0)), IF_(ENum(0), PRINT(ENum(1)), PRINT(ENum(2)))>>
    /\ ip = AfterIf
    /\ output = <<"1">>
    /\ Len(stack) = 1

----------------------------------------------------------------------------
(* C20: declaring a local whose name is that of a live local of the same   *)
(* scope is the compile error "Already a variable with this name in this   *)
(* scope."; a declaration whose name is only that of locals of enclosing   *)
(* scopes, or of a global, is accepted, and so is the redeclaration of a   *)
(* global at depth 0.  Taken on declarations whose initializer reads no    *)
(* variable, so that nothing else can fail.                                *)

C20_Declares ==
    /\ ParsedOne
    /\ Last(src').kind = "var"
    /\ NamesIn(Last(src').e) = {}

C20_Redeclaration ==
    [][C20_Declares =>
          LET depth == ScopeAfter(src, Len(src)).depth IN
          IF depth > 0 /\ Last(src').name \in LiveNamesAt(src, depth)
          THEN phase' = "compile_error" /\ err' = AlreadyDeclared
          ELSE phase' = "compile"]_vars

----------------------------------------------------------------------------
(* Chunks.                                                                 *)

(* The chunks there are: those being compiled and those being run.         *)
Chunks ==
    {compiler.function.chunk}
        \cup {enclosing[i].function.chunk : i \in 1 .. Len(enclosing)}
        \cup {frames[i].function.chunk : i \in 1 .. Len(frames)}

JumpOps == {"OpJumpIfFalse", "OpJump"}

(* The addresses of the forward jumps of a chunk's code.                    *)
JumpsOf(code) == {j \in 0 .. Len(code) - 1 : code[j + 1].op \in JumpOps}

(* C28: whatever add_code, add_constant and patch_jump have done to a      *)
(* chunk, it has as many lines as instructions; and patching a jump        *)
(* changes the operand of that instruction only: the code keeps its length *)
(* and its other instructions, the lines and the constants stay as they    *)
(* were.                                                                   *)
C28_CodeAndLines ==
    /\ \A chunk \in Chunks : Len(chunk.code) = Len(chunk.lines)
    /\ \A jump_start \in JumpsOf(Code) :
          LET chunk == compiler.function.chunk
              patched == patch_jump(compiler, jump_start).function.chunk
          IN /\ Len(patched.code) = Len(chunk.code)
             /\ patched.lines = chunk.lines
             /\ patched.constants = chunk.constants
             /\ patched.code[jump_start + 1].op = chunk.code[jump_start + 1].op
             /\ \A i \in 1 .. Len(chunk.code) :
                   i # jump_start + 1 => patched.code[i] = chunk.code[i]

(* `if (0) print 1; else print 2;` is compiled and about to run: both      *)
(* jumps are patched and the eleven instructions have eleven lines.        *)
C28_Witness ==
    /\ phase = "run"
    /\ src = <<IF_(ENum(0), PRINT(ENum(1)), PRINT(ENum(2)))>>
    /\ Len(Code) = Len(compiler.function.chunk.lines)
    /\ Cardinality(JumpsOf(Code)) = 2
    /\ \A j \in JumpsOf(Code) : Code[j + 1].arg > 0
    /\ ip = 0


(* The instructions whose operand is a slot of the chunk's constants.      *)
ConstantOps == {"OpConstant", "OpDefineGlobal", "OpGetGlobal", "OpSetGlobal"}

Constants == compiler.function.chunk.constants

RECURSIVE ConstantOperands(_)
ConstantOperands(code) ==
    IF code = <<>> THEN <<>>
    ELSE IF code[1].op \in ConstantOps
    THEN <<code[1]>> \o ConstantOperands(Tail(code))
    ELSE ConstantOperands(Tail(code))

(* What the instructions of an expression, in the order they are emitted,  *)
(* keep in the constants: a number, a string, or the name of a global.     *)
RECURSIVE EmittedFor(_)
EmittedFor(e) ==
    CASE e.kind = "num" -> <<[op |-> "OpConstant", value |-> Number(e.n)]>>
      [] e.kind = "str" -> <<[op |-> "OpConstant", value |-> LString(e.s)]>>
      [] e.kind = "var" -> <<[op |-> "OpGetGlobal", value |-> LString(e.name)]>>
      [] e.kind = "assign" ->
            EmittedFor(e.e) \o <<[op |-> "OpSetGlobal", value |-> LString(e.name)]>>
      [] e.kind = "none" -> <<>>

(* The same for a statement of a script at global scope.                   *)
EmittedForStatement(s) ==
    CASE s.kind = "var" ->
            EmittedFor(s.e) \o <<[op |-> "OpDefineGlobal", value |-> LString(s.name)]>>
      [] s.kind \in {"print", "expr"} -> EmittedFor(s.e)

(* C29: in every chunk each Constant(k), DefineGlobal(k), GetGlobal(k) and *)
(* SetGlobal(k) has k < len(constants); compiling a statement leaves the   *)
(* constants that were there where they were, and the operand of each      *)
(* instruction it emits is the slot of the number, or of the name of the   *)
(* global, that the instruction was emitted for.                           *)
C29_ConstantOperands ==
    /\ [](\A chunk \in Chunks : \A i \in 1 .. Len(chunk.code) :
             chunk.code[i].op \in ConstantOps =>
                 chunk.code[i].arg \in 0 .. Len(chunk.constants) - 1)
    /\ [][ParsedOne /\ phase' = "compile" =>
             LET emitted == ConstantOperands(NewCode)
                 for == EmittedForStatement(Last(src'))
             IN /\ SubSeq(Constants', 1, Len(Constants)) = Constants
                /\ Len(emitted) = Len(for)
                /\ \A i \in 1 .. Len(for) :
                      /\ emitted[i].op = for[i].op
                      /\ Constants'[emitted[i].arg + 1] = for[i].value]_vars

C29_Witness ==
    /\ phase = "run"
    /\ src = <<VAR("a", ENum(1)), EXPR(EAssign("b", ENum(3))), PRINT(EVar("a"))>>
    /\ Len(Constants) = 6
    /\ [i \in 1 .. 5 |-> ConstantOperands(Code)[i + 1].arg] = <<2, 1, 4, 3, 5>>
    /\ SubSeq(Constants, 2, 6)
          = <<LString("a"), Number(1), LString("b"), Number(3), LString("a")>>


(* Where the jump at index i of a chunk's code goes.                      *)
JumpTarget(code, i) ==
    IF code[i + 1].op = "OpJumpBack" THEN i + 1 - code[i + 1].arg
    ELSE i + 1 + code[i + 1].arg

AllJumpsOf(code) ==
    {i \in 0 .. Len(code) - 1 : code[i + 1].op \in JumpOps \cup {"OpJumpBack"}}

Compiled == phase \notin {"compile", "compile_error"}

(* C30: in every chunk of a script that compiled, the target of each       *)
(* JumpIfFalse, Jump and JumpBack is the index of an instruction of the    *)
(* same chunk, and the VM, while it runs, is about to fetch an instruction *)
(* of the chunk.                                                           *)
C30_JumpTargets ==
    Compiled =>
        /\ \A chunk \in Chunks : \A i \in AllJumpsOf(chunk.code) :
              JumpTarget(chunk.code, i) \in 0 .. Len(chunk.code) - 1
        /\ phase = "run" =>
              \A i \in 1 .. Len(frames) :
                  frames[i].ip \in 0 .. Len(frames[i].function.chunk.code) - 1

(* A script that ends with an if without else, whose last jump goes to the *)
(* instructions end_compiler added, after a loop that jumped back.         *)
C30_Witness ==
    /\ phase = "done"
    /\ src = <<FOR(VAR("i", ENum(0)), EBinary("<", EVar("i"), ENum(Limit)),
                   EAssign("i", EBinary("+", EVar("i"), ENum(1))), PRINT(EVar("i"))),
               IF_(ELit("false"), PRINT(ENum(1)), NoStmt)>>
    /\ \E i \in AllJumpsOf(Code) : JumpTarget(Code, i) = Len(Code) - 2
    /\ \E i \in AllJumpsOf(Code) : Code[i + 1].op = "OpJumpBack"
    /\ output = [j \in 1 .. Limit |-> NumToString(j - 1)]


BinaryInstructions ==
    {"OpAdd", "OpSubtract", "OpMultiply", "OpDivide", "OpGreater", "OpLess"}

(* The deeper and the top one of the two values an instruction works on.   *)
Left == stack[Len(stack) - 1]
Right == stack[Len(stack)]

(* C27: a binary instruction on two numbers, or Add on two strings, puts   *)
(* one result in the place of the top two values of the stack, with the    *)
(* deeper value as the left operand: Subtract left - right, Divide the     *)
(* quotient of left by right, Greater left > right, Less left < right, and *)
(* Add on strings left followed by right.                                  *)
C27_BinaryOperands ==
    [][Fetching /\ Fetched.op \in BinaryInstructions /\ Len(stack) >= 2
         /\ (\/ Left.t = "num" /\ Right.t = "num"
             \/ Left.t = "str" /\ Right.t = "str" /\ Fetched.op = "OpAdd")
       => /\ Len(stack') = Len(stack) - 1
          /\ SubSeq(stack', 1, Len(stack) - 2) = SubSeq(stack, 1, Len(stack) - 2)
          /\ LET result == Last(stack') IN
             CASE Left.t = "str" -> result = LString(Left.s \o Right.s)
               [] Fetched.op = "OpAdd" -> result = Number(Left.n + Right.n)
               [] Fetched.op = "OpSubtract" -> result = Number(Left.n - Right.n)
               [] Fetched.op = "OpMultiply" -> result = Number(Left.n * Right.n)
               [] Fetched.op = "OpDivide" ->
                     result.t = "num" /\ result.n * Right.n = Left.n
               [] Fetched.op = "OpGreater" -> result = Bool(Left.n > Right.n)
               [] Fetched.op = "OpLess" -> result = Bool(Left.n < Right.n)]_vars

C27_Witness ==
    /\ phase = "run"
    /\ src = <<PRINT(EBinary("-", ENum(6), ENum(3))),
               PRINT(EBinary("+", EStr("a"), EStr("b")))>>
    /\ output = <<"3">>
    /\ Executed.op = "OpAdd"
    /\ stack # <<>> /\ Last(stack) = LString("ab")


(* C23: nothing but the output of print reaches stdout: whenever a step    *)
(* writes to stdout, it is an OpPrint that writes the value on top of the  *)
(* stack; what a runtime error reports goes to stderr.                     *)
C23_StdoutIsPrintOnly ==
    [][output' # output =>
          /\ Fetching /\ Fetched.op = "OpPrint" /\ stack # <<>>
          /\ output' = Append(output, ValueToString(Last(stack)))]_vars


----------------------------------------------------------------------------
(* The scanner has returned the token of the end of the text.              *)
ReturnedEOF == tokens # <<>> /\ Last(tokens).token_type = "EOF"

(* C24: once scan_token has returned EOF for a source, every later call    *)
(* returns EOF as well and leaves current and line as they were.           *)
C24_EOFRepeats ==
    [][ReturnedEOF =>
          /\ Len(tokens') = Len(tokens) + 1
          /\ Last(tokens').token_type = "EOF"
          /\ input'.current = input.current
          /\ input'.line = input.line]_vars

C24_Witness ==
    /\ input.text = <<"a", "\n">>
    /\ Len(tokens) = 3
    /\ [i \in 1 .. 3 |-> tokens[i].token_type] = <<"Identifier", "EOF", "EOF">>
    /\ input.current = 2
    /\ input.line = 2


(* The character the scanner is at, when it is one of the text.            *)
AtCharacter == input.current < Len(input.text)
Character == input.text[input.current + 1]

(* The characters of ScanChars that begin no token and are no white space. *)
Unrecognised == {"@", EAcute}

(* C25: whatever the text, characters outside ASCII included, each call of *)
(* scan_token returns a token; a character that starts no token gives the  *)
(* Error token "Unexpected character."; and the calls reach EOF after      *)
(* finitely many tokens: no more than the text has characters.             *)
C25_ScanTotal ==
    /\ [][/\ phase' = phase
          /\ Len(tokens') = Len(tokens) + 1
          /\ AtCharacter /\ Character \in Unrecognised =>
                /\ Last(tokens') = Token_new("Error", "Unexpected character.", input.line)
                /\ input'.current = input.current + 1]_vars
    /\ [](Len(tokens) > Len(input.text) =>
             \E i \in 1 .. Len(tokens) : tokens[i].token_type = "EOF")


(* The token type of each keyword.                                         *)
KeywordType(word) ==
    CASE
         word = <<"a", "n", "d">> -> "And"
      [] word = <<"c", "l", "a", "s", "s">> -> "Class"
      [] word = <<"e", "l", "s", "e">> -> "Else"
      [] word = <<"f", "a", "l", "s", "e">> -> "False"
      [] word = <<"f", "o", "r">> -> "For"
      [] word = <<"f", "u", "n">> -> "Fun"
      [] word = <<"i", "f">> -> "If"
      [] word = <<"n", "i", "l">> -> "Nil"
      [] word = <<"o", "r">> -> "Or"
      [] word = <<"p", "r", "i", "n", "t">> -> "Print"
      [] word = <<"r", "e", "t", "u", "r", "n">> -> "Return"
      [] word = <<"s", "u", "p", "e", "r">> -> "Super"
      [] word = <<"t", "h", "i", "s">> -> "This"
      [] word = <<"t", "r", "u", "e">> -> "True"
      [] word = <<"v", "a", "r">> -> "Var"
      [] word = <<"w", "h", "i", "l", "e">> -> "While"

(* The characters scan_token took for the token it has just returned.      *)
Taken == SubSeq(input'.text, input'.start + 1, input'.current)

(* C26: an identifier is given the token type of a keyword if and only if  *)
(* it is, as a whole, one of the 16 keywords; a proper prefix of a keyword *)
(* and a keyword with more characters after it are Identifiers.            *)
C26_KeywordsExactly ==
    [][Len(tokens') = Len(tokens) + 1 /\ Taken # <<>> /\ is_alpha(Taken[1]) =>
          Last(tokens').token_type
              = IF Taken \in Keywords THEN KeywordType(Taken) ELSE "Identifier"]_vars


(* The text the parser has: from where its current token starts, it begins *)
(* with `text`.                                                       *)
ParserBeginsWith(text) ==
    /\ parser.current # NoToken
    /\ parser.source.start + Len(text) <= Len(parser.source.text)
    /\ SubSeq(parser.source.text, parser.source.start + 1,
              parser.source.start + Len(text)) = text

(* The token the scanner gives after `text`, which the parser scans when   *)
(* it consumes the last token of `text`.                                   *)
TokenAfter(text) ==
    scan_token([parser.source EXCEPT !.start = @ + Len(text),
                                     !.current = parser.source.start + Len(text)]).token

(* What one turn of parse() has added to the chunk, and to what stderr has. *)
ParsedCode ==
    SubSeq(parser'.c.function.chunk.code, Len(parser.c.function.chunk.code) + 1,
           Len(parser'.c.function.chunk.code))
Diagnostics ==
    SubSeq(parser'.reported, Len(parser.reported) + 1, Len(parser'.reported))

(* The variable an instruction reads or writes: the name its constant      *)
(* holds when it is global, "local" when it is a slot.                     *)
VariableOf(instruction) ==
    IF instruction.op \in {"OpGetLocal", "OpSetLocal"} THEN "local"
    ELSE parser'.c.function.chunk.constants[instruction.arg + 1].s

IsGet(instruction) == instruction.op \in {"OpGetGlobal", "OpGetLocal"}
IsSet(instruction) == instruction.op \in {"OpSetGlobal", "OpSetLocal"}

(* C21: a statement where `=` follows a+b, 1, (a), -a, !a, a and b or      *)
(* a=b+c, none of them a bare identifier that may be assigned, fails to    *)
(* compile with the one diagnostic "Invalid assignment target." at the     *)
(* `=`; the statement a=b=c; compiles, to: read c, set b, set a, pop, so   *)
(* that b = c is the value assigned to a (the pop is missing, and the      *)
(* compile fails, only when what follows the statement is no token).       *)
C21_AssignmentTarget ==
    [][phase = "compile" =>
         /\ \A text \in InvalidAssignments :
               ParserBeginsWith(text) =>
                  /\ phase' = "compile_error"
                  /\ Len(Diagnostics) = 1
                  /\ Diagnostics[1].line
                        = "[line 1] Error at '=': Invalid assignment target."
         /\ ParserBeginsWith(<<"a", "=", "b", "=", "c", ";">>) =>
               /\ Len(ParsedCode) >= 3
               /\ IsGet(ParsedCode[1]) /\ VariableOf(ParsedCode[1]) \in {"c", "local"}
               /\ IsSet(ParsedCode[2]) /\ VariableOf(ParsedCode[2]) \in {"b", "local"}
               /\ IsSet(ParsedCode[3]) /\ VariableOf(ParsedCode[3]) \in {"a", "local"}
               /\ IF TokenAfter(<<"a", "=", "b", "=", "c", ";">>).token_type = "Error"
                  THEN /\ phase' = "compile_error"
                       /\ Len(ParsedCode) = 3
                       /\ Len(Diagnostics) = 1
                       /\ Diagnostics[1].line
                             = "[line 1] Error at 'Unexpected character.': Unexpected character."
                  ELSE /\ phase' = "compile"
                       /\ Diagnostics = <<>>
                       /\ Len(ParsedCode) = 4
                       /\ ParsedCode[4].op = "OpPop"]_vars

(* a+b=c; after a=b=c; has been compiled: the chunk holds the assignment,  *)
(* then what a+b emitted, and the compile has failed at the `=`.           *)
C21_Witness ==
    /\ phase = "compile_error"
    /\ Join(parser.source.text) = "a=b=c; a+b=c; "
    /\ [i \in 1 .. Len(parser.reported) |-> parser.reported[i].line]
          = <<"[line 1] Error at '=': Invalid assignment target.">>
    /\ [i \in 1 .. Len(parser.c.function.chunk.code) |->
           parser.c.function.chunk.code[i].op]
          = <<"OpConstant", "OpGetGlobal", "OpSetGlobal", "OpSetGlobal", "OpPop",
              "OpGetGlobal", "OpGetGlobal", "OpAdd">>


(* The programs made of statements that compile only.                      *)
RECURSIVE ValidProgramsOf(_)
ValidProgramsOf(n) ==
    IF n = 0 THEN {<<>>}
    ELSE LET shorter == ValidProgramsOf(n - 1)
         IN shorter \cup {text \o s \o <<" ">> : text \in shorter, s \in ValidStatements}

(* The statements with an error whose first token is a token.              *)
ErrorsAfterFirstToken == (ErrorStatements \cup InvalidAssignments) \ {<<"@">>}

(* C22: a turn of parse() that meets a scanner Error token, an unexpected  *)
(* token or a semantic violation ends the compile with CompileError and    *)
(* with exactly one diagnostic, and between that report and the return the *)
(* scanner has given no token and the chunk has got no instruction; a turn *)
(* that meets none reports nothing.  Every statement with an error is met: *)
(* only programs of statements without one are compiled to the end.        *)
C22_FailFast ==
    /\ [][phase = "compile" =>
            /\ IF phase' = "compile_error"
               THEN /\ parser.reported = <<>>
                    /\ Len(parser'.reported) = 1
                    /\ parser'.reported[1].current = parser'.source.current
                    /\ parser'.reported[1].code_len
                          = Len(parser'.c.function.chunk.code)
                    /\ err' = parser'.reported[1].line
               ELSE parser'.reported = <<>>
            /\ \A text \in ErrorsAfterFirstToken :
                  ParserBeginsWith(text \o <<" ">>) => phase' = "compile_error"]_vars
    /\ [][phase = "compile_error" => UNCHANGED parser]_vars
    /\ [](phase = "compiled" =>
             /\ parser.reported = <<>>
             /\ parser.source.text \in ValidProgramsOf(MaxParseStmts))

(* print 1; print @; has failed at the @: one diagnostic, the chunk holds  *)
(* the first print only, and the `;` after the @ has not been scanned.     *)
C22_Witness ==
    /\ phase = "compile_error"
    /\ Join(parser.source.text) = "print 1; print @; "
    /\ [i \in 1 .. Len(parser.reported) |-> parser.reported[i].line]
          = <<"[line 1] Error at 'Unexpected character.': Unexpected character.">>
    /\ [i \in 1 .. Len(parser.c.function.chunk.code) |->
           parser.c.function.chunk.code[i].op]
          = <<"OpConstant", "OpConstant", "OpPrint">>
    /\ parser.source.text[parser.source.current] = "@"


(* C31: whenever while_statement, for_statement or for_loop_increment       *)
(* computes code.len() - 1, the chunk of the function being compiled holds *)
(* an instruction, wherever the loop stands: the subtraction never goes    *)
(* below 0.                                                                *)
C31_AnchorNeverUnderflows == ~compiler.underflow

(* The token type of an operator's text, and what binary() emits for it.   *)
TypeOfOperator(op) == scan_token(Source_new(op)).token.token_type
OpsOf(op) == BinaryOps(OperatorOf(TypeOfOperator(op)))
PrecedenceOf(op) == get_rule(TypeOfOperator(op)).precedence

(* The constant an OpConstant instruction of the new chunk loads.          *)
Loads(instruction, value) ==
    /\ instruction.op = "OpConstant"
    /\ parser'.c.function.chunk.constants[instruction.arg + 1] = Number(value)

(* C32: the statement 1 op1 2 op2 3; compiles to: 1, 2, op1, 3, op2 when   *)
(* op1 binds at least as tightly as op2 (equal precedence associates to    *)
(* the left), and to 1, 2, 3, op2, op1 when op2 binds tighter; then the    *)
(* pop of the expression statement.                                        *)
C32_LeftAssociative ==
    [][phase = "compile" =>
         \A op1, op2 \in BinaryOperatorTexts :
            ParserBeginsWith(Operation(op1, op2)) =>
               /\ phase' = "compile"
               /\ Len(ParsedCode) = 4 + Len(OpsOf(op1)) + Len(OpsOf(op2))
               /\ Loads(ParsedCode[1], 1)
               /\ Loads(ParsedCode[2], 2)
               /\ IF PrecedenceOf(op1) >= PrecedenceOf(op2)
                  THEN /\ Loads(ParsedCode[3 + Len(OpsOf(op1))], 3)
                       /\ [i \in 1 .. Len(ParsedCode) |-> ParsedCode[i].op]
                             = <<"OpConstant", "OpConstant">>
                               \o [i \in 1 .. Len(OpsOf(op1)) |-> OpsOf(op1)[i].op]
                               \o <<"OpConstant">>
                               \o [i \in 1 .. Len(OpsOf(op2)) |-> OpsOf(op2)[i].op]
                               \o <<"OpPop">>
                  ELSE /\ Loads(ParsedCode[3], 3)
                       /\ [i \in 1 .. Len(ParsedCode) |-> ParsedCode[i].op]
                             = <<"OpConstant", "OpConstant", "OpConstant">>
                               \o [i \in 1 .. Len(OpsOf(op2)) |-> OpsOf(op2)[i].op]
                               \o [i \in 1 .. Len(OpsOf(op1)) |-> OpsOf(op1)[i].op]
                               \o <<"OpPop">>]_vars

(* 1-2-3; has been compiled: subtract follows the second constant, and     *)
(* follows the third again.                                                *)
C32_Witness ==
    /\ phase = "compiled"
    /\ Join(parser.source.text) = "1-2-3; "
    /\ [i \in 1 .. Len(parser.c.function.chunk.code) |->
           parser.c.function.chunk.code[i].op]
          = <<"OpConstant", "OpConstant", "OpConstant", "OpSubtract", "OpConstant",
              "OpSubtract", "OpPop", "OpNil", "OpReturn">>

(* The next Step executes a Call whose callee is a native function.       *)
CallingNative ==
    /\ Fetching
    /\ Fetched.op = "OpCall"
    /\ Len(stack) > Fetched.arg
    /\ stack[Len(stack) - Fetched.arg].t = "native"

(* What the call of a native does to the stacks: callee and arguments are  *)
(* gone, the value returned is on top, and the frames are as they were but *)
(* for the ip.                                                             *)
NativeCallEffect ==
    /\ phase' = "run"
    /\ Len(stack') = Len(stack) - Fetched.arg
    /\ Front(stack') = SubSeq(stack, 1, Len(stack) - Fetched.arg - 1)
    /\ Last(stack') \in {Number(now) : now \in ClockValues}
    /\ frames' = [frames EXCEPT ![Len(frames)].ip = @ + 1]

(* C33: Call(argc) on a native function removes the callee and the argc    *)
(* arguments from the operand stack, pushes the value the native returned, *)
(* leaves the frame stack and the frame's base as they were, and gives the *)
(* native (argc, frame_base) as its arguments.                             *)
C33_NativeCall ==
    [][CallingNative =>
          /\ NativeCallEffect
          /\ received' = <<Fetched.arg, Last(frames).frame_pointer>>]_vars

(* The stack position OpSetLocal writes, and the name OpSetGlobal writes.  *)
AddressedSlot == Last(frames).frame_pointer + Fetched.arg + 1
AddressedName == ConstantAt(Last(frames), Fetched.arg).s

(* The frames after an instruction that only went on to the next one.      *)
FramesAdvanced == [frames EXCEPT ![Len(frames)].ip = @ + 1]

(* C34: OpSetLocal on a slot the stack has, and OpSetGlobal on a name the  *)
(* globals have, overwrite that binding alone with the value on top of the *)
(* stack and leave the stack as deep as it was, the value still on top; so *)
(* a = b = 3 leaves 3 in both a and b, be they globals or locals.          *)
C34_AssignmentIsExpression ==
    /\ [][Fetching /\ Fetched.op = "OpSetLocal" /\ AddressedSlot <= Len(stack) =>
             /\ phase' = "run"
             /\ stack' = [stack EXCEPT ![AddressedSlot] = Last(stack)]
             /\ Len(stack') = Len(stack)
             /\ Last(stack') = Last(stack)
             /\ globals' = globals
             /\ frames' = FramesAdvanced]_vars
    /\ [][Fetching /\ Fetched.op = "OpSetGlobal" /\ stack # <<>>
             /\ AddressedName \in DOMAIN globals =>
             /\ phase' = "run"
             /\ stack' = stack
             /\ globals' = [globals EXCEPT ![AddressedName] = Last(stack)]
             /\ frames' = FramesAdvanced]_vars
    /\ [](/\ src = <<VAR("a", ENum(1)), VAR("b", ENum(2)), EXPR(ChainedAssignment)>>
          /\ phase = "done"
          => globals["a"] = Number(3) /\ globals["b"] = Number(3))
    /\ [](/\ Len(src) >= 4
          /\ SubSeq(src, 1, 4) = <<LBRACE, VAR("a", ENum(1)), VAR("b", ENum(2)),
                                   EXPR(ChainedAssignment)>>
          /\ phase = "run"
          /\ Last(frames).ip > 0
          /\ Executed = Op("OpSetLocal", 1)
          => SubSeq(stack, 2, 4) = <<Number(3), Number(3), Number(3)>>)

(* { var a = 1; var b = 2; a = b = 3; has run as far as the write to a:    *)
(* both slots and the top of the stack hold 3.                             *)
C34_Witness ==
    /\ Len(src) >= 4
    /\ SubSeq(src, 1, 4) = <<LBRACE, VAR("a", ENum(1)), VAR("b", ENum(2)),
                             EXPR(ChainedAssignment)>>
    /\ phase = "run"
    /\ Last(frames).ip > 0
    /\ Executed = Op("OpSetLocal", 1)
    /\ SubSeq(stack, 2, 4) = <<Number(3), Number(3), Number(3)>>

(* The compiler after the first k statements of a script, and with it the *)
(* address at which the statement after them begins.                       *)
RECURSIVE CompilerAfter(_, _)
CompilerAfter(s, k) ==
    IF k = 0 THEN RootCompiler
    ELSE LET prev == CompilerAfter(s, k - 1)
         IN CASE s[k].kind = "{" -> begin_scope(prev)
              [] s[k].kind = "}" -> end_scope(prev)
              [] OTHER -> declaration(prev, s[k]).c

BoundaryAfter(s, k) == Len(CompilerAfter(s, k).function.chunk.code)

(* C35: when the script, running, stands at the boundary between two of    *)
(* its statements, the stack holds the frame's base slot and one value for *)
(* each local that is live at that place of the source, whatever the       *)
(* statements before it were.                                              *)
C35_StackDiscipline ==
    phase = "run" /\ Len(frames) = 1 =>
       \A k \in 0 .. Len(src) :
          Last(frames).ip = BoundaryAfter(src, k) =>
             Len(stack) = Last(frames).frame_pointer + 1 + Len(ScopeAfter(src, k).live)

(* The names of the locals that were declared at `depth` in blocks of the  *)
(* script that have closed since.                                          *)
ClosedAt(s, depth) ==
    {s[k].name : k \in {i \in 1 .. Len(s) :
                          /\ s[i].kind = "var"
                          /\ ScopeAfter(s, i - 1).depth = depth
                          /\ \E j \in i + 1 .. Len(s) :
                                s[j].kind = "}" /\ ScopeAfter(s, j).depth < depth}}

(* C36: a local declared in a block that has closed does not stand in the  *)
(* way of a later declaration: declaring the name again at the same depth  *)
(* in a later block, where no live local of the scope bears it, compiles,  *)
(* without "Already a variable with this name in this scope.".             *)
C36_SiblingBlocks ==
    [][/\ ParsedOne
       /\ Last(src').kind = "var"
       /\ NamesIn(Last(src').e) = {}
       /\ ScopeAfter(src, Len(src)).depth > 0
       /\ Last(src').name \in ClosedAt(src, ScopeAfter(src, Len(src)).depth)
       /\ Last(src').name \notin LiveNamesAt(src, ScopeAfter(src, Len(src)).depth)
       => phase' = "compile" /\ err' # AlreadyDeclared]_vars

(* C37: when the declaration of a local has been compiled, the local that *)
(* is initialized is the one just declared, the last of the compiler's     *)
(* locals, whatever scopes were opened and closed before; so the           *)
(* statements after the declaration can read it.                           *)
C37_InitializedIsDeclared ==
    [][/\ ParsedOne
       /\ Last(src').kind = "var"
       /\ ScopeAfter(src, Len(src)).depth > 0
       /\ phase' = "compile"
       => /\ compiler'.env.locals # <<>>
          /\ Last(compiler'.env.locals).name = Last(src').name
          /\ Last(compiler'.env.locals).initialized]_vars

(* C38: when interpret() returns Ok, the frame stack and the operand stack *)
(* are empty: the script function of slot 0, the locals and the            *)
(* temporaries are gone, and on a VM that began with both empty only the   *)
(* globals differ from what they were before the call.                     *)
C38_EmptyAtReturn ==
    [][phase = "run" /\ phase' = "done" =>
          /\ frames' = <<>>
          /\ stack' = <<>>
          /\ Len(frames) = 1
          /\ Fetched.op = "OpReturn"]_vars

(* fun f(p) { print p; } print f(2); has returned Ok: it printed 2 and nil, *)
(* defined f, and left no frame and no value.                              *)
C38_Witness ==
    /\ phase = "done"
    /\ Len(src) = 4
    /\ src[1] = FUN("f", <<"p">>)
    /\ output = <<"2", "nil">>
    /\ "f" \in DOMAIN globals
    /\ frames = <<>>
    /\ stack = <<>>

(* The next Step executes OpNegate on a value that is no number, or a     *)
(* binary instruction on two values that are not two numbers, nor two      *)
(* strings to add.                                                         *)
BinaryOpCodes ==
    {"OpAdd", "OpSubtract", "OpMultiply", "OpDivide", "OpGreater", "OpLess"}

WrongOperands ==
    /\ Fetching
    /\ \/ Fetched.op = "OpNegate" /\ stack # <<>> /\ Last(stack).t # "num"
       \/ /\ Fetched.op \in BinaryOpCodes
          /\ Len(stack) >= 2
          /\ ~(Last(stack).t = "num" /\ Last(Front(stack)).t = "num")
          /\ ~(Fetched.op = "OpAdd" /\ Last(stack).t = "str"
                  /\ Last(Front(stack)).t = "str")

(* C39: an instruction that finds operands of the wrong type ends run()    *)
(* with a RuntimeError and leaves the operands where they were: the stack  *)
(* and the globals are unchanged, and the frames but for the advanced ip.  *)
C39_TypeErrorKeepsOperands ==
    [][WrongOperands =>
          /\ phase' = "runtime_error"
          /\ err' \in {"Operand must be a number.",
                       "Operands must be two numbers or two strings.",
                       "You cannot use that operator for strings."}
          /\ stack' = stack
          /\ globals' = globals
          /\ frames' = FramesAdvanced]_vars

(* var a = 1; print 1 + "a"; has failed at the OpAdd: both operands are    *)
(* still on the stack, above the script function, and a is defined.        *)
C39_Witness ==
    /\ phase = "runtime_error"
    /\ src = <<VAR("a", ENum(1)), PRINT(EBinary("+", ENum(1), EStr("a")))>>
    /\ err = "Operands must be two numbers or two strings."
    /\ Len(stack) = 3
    /\ SubSeq(stack, 2, 3) = <<Number(1), LString("a")>>
    /\ globals["a"] = Number(1)
    /\ Len(frames) = 1
    /\ Executed.op = "OpAdd"

====
